---- MODULE Spec2Model ----
(***************************************************************************)
(* vtkImageReslice (Imaging/Core/vtkImageReslice.cxx) as a state machine.  *)
(*                                                                         *)
(* Continuous coordinates, matrix elements, spacings, origins and the      *)
(* border tolerance are stored as integers counting quarters of a unit     *)
(* (the value 4 stands for 1.0).  Every input enumerated below is a        *)
(* multiple of 1/2, so that every product and every slab offset the code   *)
(* forms is an exact multiple of 1/4.  Integer indices and extents are     *)
(* plain integers.  Arrays keep the 0-based indices of the source.         *)
(***************************************************************************)
EXTENDS Integers, Sequences, FiniteSets, TLC

---------------------------------------------------------------------------
(* Bounds of the model *)

\* upper corner of the input whole extent [0,InMaxX] x [0,InMaxY] x [0,InMaxZ]
InMaxX == 2
InMaxY == 1
InMaxZ == 2
\* setter calls made on the filter
MaxCalls == 2
\* setter calls made on the filter when the float row of the general path is observed
MaxFloatRowCalls == 3
\* setter calls made on the filter when only slabs and stencils are configured
MaxStencilCalls == 3
\* passes of the pipeline when the filter is re-executed
MaxPasses == 2
\* setter calls and in-place modifications when modification times are observed
MaxTouches == 3
\* setter calls when only the information and the update extent are requested
MaxExtentCalls == 3
\* calls of the setters of the output geometry
MaxSetterCalls == 4
\* setter calls when the choice of the interpolation mode is observed
MaxNearestCalls == 5

---------------------------------------------------------------------------
(* Small helpers for 0-based arrays *)

Ext6(a, b, c, d, e, f) == [i \in 0..5 |-> <<a, b, c, d, e, f>>[i + 1]]

Vec3(a, b, c) == [i \in 0..2 |-> <<a, b, c>>[i + 1]]

Mat4(r0, r1, r2, r3) == [i \in 0..3 |-> [j \in 0..3 |-> <<r0, r1, r2, r3>>[i + 1][j + 1]]]

\* the same array, matrix or vector, with every element computed once
Array6(f) == Ext6(f[0], f[1], f[2], f[3], f[4], f[5])

Array3(f) == Vec3(f[0], f[1], f[2])

Array4(f) == [i \in 0..3 |-> <<f[0], f[1], f[2], f[3]>>[i + 1]]

Array4x4(m) ==
  Mat4(<<m[0][0], m[0][1], m[0][2], m[0][3]>>, <<m[1][0], m[1][1], m[1][2], m[1][3]>>,
       <<m[2][0], m[2][1], m[2][2], m[2][3]>>, <<m[3][0], m[3][1], m[3][2], m[3][3]>>)

Abs(x) == IF x < 0 THEN -x ELSE x

Min2(a, b) == IF a < b THEN a ELSE b

Max2(a, b) == IF a > b THEN a ELSE b

\* e, with v evaluated first: the state of a loop is computed turn by turn
Having(v, e) == IF v = v THEN e ELSE e

\* vtkMatrix4x4::Identity
Identity4 == Mat4(<<4, 0, 0, 0>>, <<0, 4, 0, 0>>, <<0, 0, 4, 0>>, <<0, 0, 0, 4>>)

\* vtkMatrix4x4::Multiply4x4 on quarter-unit elements
Multiply4x4(A, B) ==
  [i \in 0..3 |-> [j \in 0..3 |->
     (A[i][0] * B[0][j] + A[i][1] * B[1][j] + A[i][2] * B[2][j] + A[i][3] * B[3][j]) \div 4]]

\* a translation matrix from a quarter-unit vector
Translation4(t) ==
  Mat4(<<4, 0, 0, t[0]>>, <<0, 4, 0, t[1]>>, <<0, 0, 4, t[2]>>, <<0, 0, 0, 4>>)

\* vtkInterpolationMath::Round: floor(x + 0.5), of a quarter-unit value
Round(p) == (p + 2) \div 4

\* vtkInterpolationMath::Floor: the integer part; FloorFrac is the fraction f
Floor(p) == p \div 4

FloorFrac(p) == p % 4

---------------------------------------------------------------------------
(* Program constants *)

VTK_RESLICE_NEAREST == 0
VTK_RESLICE_LINEAR == 1
VTK_RESLICE_CUBIC == 3
VTK_NEAREST_INTERPOLATION == 0

VTK_IMAGE_BORDER_CLAMP == "CLAMP"
VTK_IMAGE_BORDER_REPEAT == "REPEAT"
VTK_IMAGE_BORDER_MIRROR == "MIRROR"

VTK_IMAGE_SLAB_MEAN == "MEAN"
VTK_IMAGE_SLAB_SUM == "SUM"
VTK_IMAGE_SLAB_MIN == "MIN"
VTK_IMAGE_SLAB_MAX == "MAX"

\* vtkThreadedImageAlgorithm split modes
SLAB == "SLAB"
BEAM == "BEAM"
BLOCK == "BLOCK"

\* the null pointer; every object is a record, so that pointers compare
NULL == [null |-> TRUE]

VTK_INT_MAX == 2147483647
VTK_INT_MIN == (0 - VTK_INT_MAX) - 1

\* the tolerance under wrap and mirror, "infinite (or at least very large)"
maxtol == 1000000

---------------------------------------------------------------------------
(* The inputs the model enumerates *)

\* the input image: whole extent, spacing and origin (direction is identity)
FullInput ==
  [WholeExtent |-> Ext6(0, InMaxX, 0, InMaxY, 0, InMaxZ),
   Spacing |-> Vec3(4, 4, 4), Origin |-> Vec3(4, 0, 0), ScalarType |-> "unsigned char"]

\* a default-constructed vtkImageData: its extent is empty
EmptyInput ==
  [WholeExtent |-> Ext6(0, -1, 0, -1, 0, -1),
   Spacing |-> Vec3(4, 4, 4), Origin |-> Vec3(0, 0, 0), ScalarType |-> "unsigned char"]

\* an image whose scalars are a bit array, a type no template of the type
\* dispatch is instantiated for
BitInput == [FullInput EXCEPT !.ScalarType = "bit"]

\* the scalar types that the type dispatch (vtkTemplateAliasMacro) has a case for
DispatchedTypes ==
  {"signed char", "unsigned char", "short", "unsigned short", "int", "unsigned int",
   "float", "double"}

\* the input scalars (one unsigned char component), distinct at every voxel
InputScalar(i, j, k) == 10 + i + 4 * j + 16 * k

\* reslice axes that exchange X and Y
SwapXY == Mat4(<<0, 4, 0, 0>>, <<4, 0, 0, 0>>, <<0, 0, 4, 0>>, <<0, 0, 0, 4>>)

AxesChoices == {[Element |-> SwapXY]}

\* reslice axes for the permutation test: every upper-left 3x3 of zeros and
\* ones without translation, over a bottom row that is (0,0,0,1), (0,0,0,2) or
\* (0,1,0,1)
BottomRows == {<<0, 0, 0, 4>>, <<0, 0, 0, 8>>, <<0, 4, 0, 4>>}

MatrixChoices ==
  {Mat4(<<r[0], r[1], r[2], 0>>, <<r[3], r[4], r[5], 0>>, <<r[6], r[7], r[8], 0>>, b) :
     r \in [0..8 -> {0, 4}], b \in BottomRows}

\* reslice transforms: a homogeneous shear x' = x - y/2, and a non-homogeneous
\* one that moves every odd X index far away
ShearTransform ==
  [homogeneous |-> TRUE,
   matrix |-> Mat4(<<4, -2, 0, 0>>, <<0, 4, 0, 0>>, <<0, 0, 4, 0>>, <<0, 0, 0, 4>>),
   inverse |-> Mat4(<<4, 2, 0, 0>>, <<0, 4, 0, 0>>, <<0, 0, 4, 0>>, <<0, 0, 0, 4>>)]

FoldTransform == [homogeneous |-> FALSE, matrix |-> Identity4, inverse |-> Identity4]

TransformChoices == {ShearTransform, FoldTransform}

\* vtkAbstractTransform::InternalTransformPoint of the non-homogeneous transform
InternalTransformPoint(p) ==
  [i \in 0..2 |-> IF i = 0 /\ Floor(p[0]) % 2 = 1 THEN p[0] + 64 ELSE p[i]]

\* GetInverse()->TransformPoint of a reslice transform
InverseTransformPoint(transform, p) ==
  IF transform.homogeneous
  THEN [i \in 0..2 |->
          (transform.inverse[i][0] * p[0] + transform.inverse[i][1] * p[1]
           + transform.inverse[i][2] * p[2] + transform.inverse[i][3] * 4) \div 4]
  ELSE [i \in 0..2 |-> IF i = 0 /\ p[0] >= 64 THEN p[0] - 64 ELSE p[i]]

\* output spacings: the value of the constructor, and half a voxel along Y or Z
SpacingChoices == {Vec3(4, 4, 4), Vec3(4, 2, 4), Vec3(4, 4, 2)}

\* output directions, row by row: the identity and a quarter turn about Z
Identity3 == <<4, 0, 0, 0, 4, 0, 0, 0, 4>>

DirectionChoices == {Identity3, <<0, -4, 0, 4, 0, 0, 0, 0, 4>>}

\* output origins: half a voxel down in X, two voxels up in Z, far away in X
OriginChoices == {Vec3(2, 0, 0), Vec3(4, 0, 8), Vec3(68, 0, 0)}

ExtentChoices == {Ext6(-1, InMaxX + 1, -1, InMaxY + 1, -1, InMaxZ + 1)}

ThicknessChoices == {1}

ModeChoices == {VTK_RESLICE_LINEAR}

SlabChoices == {2}

BackgroundChoices == {300}

\* the image given to SetInformationInput: another extent and origin
InformationChoices ==
  {[WholeExtent |-> Ext6(0, 1, 0, 1, 0, 1), Spacing |-> Vec3(4, 4, 4),
    Origin |-> Vec3(0, 0, 0)]}

\* the interpolator given to SetInterpolator: a separable kernel that is not a
\* vtkImageInterpolator and whose support is three voxels on every axis
OddKernel ==
  [Class |-> "vtkImageBSplineInterpolator", SplineDegree |-> 2,
   BorderMode |-> VTK_IMAGE_BORDER_CLAMP, Tolerance |-> 0]

InterpolatorChoices == {OddKernel}

\* input stencils, as predicates on the output index
StencilChoices == {[name |-> "checker"]}

InStencil(stencil, x, y, z) ==
  IF stencil = [name |-> "checker"] THEN (x + y + z) % 2 = 0 ELSE TRUE

---------------------------------------------------------------------------
(* State *)

VARIABLES
  self,          \* the fields of the vtkImageReslice object
  input,         \* the input image: WholeExtent, Spacing, Origin
  outInfo,       \* the output pipeline information written by RequestInformation
  inUpdateExt,   \* the input UPDATE_EXTENT written by RequestUpdateExtent
  stencilUpdateExt, \* the stencil input's UPDATE_EXTENT written by RequestUpdateExtent
  interp,        \* the fields of the interpolator object
  phase,         \* where the pipeline pass stands
  pending,       \* the tiles of this pass that no thread has executed yet
  outData,       \* the output image: its extent and its scalars, by offset
  stencilOutput, \* the runs inserted into the output stencil, in order
  last,          \* what the latest tile execution did
  warnings,      \* warnings emitted during the current pass
  calls,         \* setter calls still allowed
  passesLeft,    \* passes still allowed
  mtimes         \* the time stamps: the global counter and each object's MTime

vars ==
  <<self, input, outInfo, inUpdateExt, stencilUpdateExt, interp, phase, pending, outData,
    stencilOutput, last, warnings, calls, passesLeft, mtimes>>

\* vtkTimeStamp: the filter is constructed after the objects it is later given
NewTimes ==
  [clock |-> 1, Filter |-> 1, ResliceTransform |-> 0, Matrix |-> 0,
   ResliceAxes |-> 0, Interpolator |-> 0, InformationInput |-> 0]

\* vtkObject::Modified of one object: it takes the next value of the counter
Modified(times, object) ==
  [times EXCEPT !.clock = times.clock + 1, ![object] = times.clock + 1]

\* nothing executed yet
NoTile ==
  [path |-> "none", outExt |-> Ext6(0, -1, 0, -1, 0, -1), writes |-> <<>>,
   runs |-> <<>>, samples |-> {}, floats |-> {}]

\* vtkImageReslice::vtkImageReslice
Constructor ==
  [InformationInput |-> NULL,
   TransformInputSampling |-> 1,
   AutoCropOutput |-> 0,
   OutputDimensionality |-> 3,
   ComputeOutputSpacing |-> 1,
   ComputeOutputOrigin |-> 1,
   ComputeOutputExtent |-> 1,
   PassDirectionToOutput |-> 1,
   OutputSpacing |-> Vec3(4, 4, 4),
   OutputDirection |-> Identity3,
   OutputOrigin |-> Vec3(0, 0, 0),
   OutputExtent |-> Ext6(0, 0, 0, 0, 0, 0),
   Wrap |-> 0,
   Mirror |-> 0,
   Border |-> 1,
   BorderThickness |-> 2,
   InterpolationMode |-> VTK_RESLICE_NEAREST,
   SlabMode |-> VTK_IMAGE_SLAB_MEAN,
   SlabNumberOfSlices |-> 1,
   SlabTrapezoidIntegration |-> 0,
   SlabSliceSpacingFraction |-> 4,
   Optimization |-> 1,
   ScalarShift |-> 0,
   ScalarScale |-> 4,
   BackgroundColor |-> 0,
   ResliceAxes |-> NULL,
   ResliceTransform |-> NULL,
   IndexMatrix |-> NULL,
   OptimizedTransform |-> NULL,
   HitInputExtent |-> 1,
   UsePermuteExecute |-> 0,
   HasConvertScalars |-> 0,
   GenerateStencilOutput |-> 0,
   Stencil |-> NULL,
   SplitMode |-> SLAB,
   SplitPathLength |-> 3]

InitCommon ==
  /\ self = Constructor
  /\ input = FullInput
  /\ outInfo = NULL
  /\ inUpdateExt = Ext6(0, -1, 0, -1, 0, -1)
  /\ stencilUpdateExt = Ext6(0, -1, 0, -1, 0, -1)
  /\ interp = NULL
  /\ phase = "idle"
  /\ pending = {}
  /\ outData = NULL
  /\ stencilOutput = <<>>
  /\ last = NoTile
  /\ warnings = 0
  /\ mtimes = NewTimes

Init ==
  /\ InitCommon
  /\ calls = MaxCalls
  /\ passesLeft = 1

InitStencil ==
  /\ InitCommon
  /\ calls = MaxStencilCalls
  /\ passesLeft = 1

InitDriver ==
  /\ InitCommon
  /\ calls = MaxCalls
  /\ passesLeft = MaxPasses

InitExtent ==
  /\ InitCommon
  /\ calls = MaxExtentCalls
  /\ passesLeft = MaxPasses

InitMTime ==
  /\ InitCommon
  /\ calls = MaxTouches
  /\ passesLeft = MaxPasses

InitSetters ==
  /\ InitCommon
  /\ calls = MaxSetterCalls
  /\ passesLeft = 1

InitNearest ==
  /\ InitCommon
  /\ calls = MaxNearestCalls
  /\ passesLeft = MaxPasses

\* the filter after SetResliceAxes(m) and TransformInputSamplingOff()
InitMatrix ==
  /\ \E m \in MatrixChoices :
       self = [Constructor EXCEPT !.ResliceAxes = [Element |-> m],
                                  !.TransformInputSampling = 0]
  /\ input = FullInput
  /\ outInfo = NULL
  /\ inUpdateExt = Ext6(0, -1, 0, -1, 0, -1)
  /\ stencilUpdateExt = Ext6(0, -1, 0, -1, 0, -1)
  /\ interp = NULL
  /\ phase = "idle"
  /\ pending = {}
  /\ outData = NULL
  /\ stencilOutput = <<>>
  /\ last = NoTile
  /\ warnings = 0
  /\ mtimes = Modified(Modified(NewTimes, "Filter"), "Filter")
  /\ calls = 0
  /\ passesLeft = 1

---------------------------------------------------------------------------
(* Setters.  A setter is called between passes. *)

CanSet == phase = "idle" /\ passesLeft > 0 /\ calls > 0

Set(field, value) ==
  /\ CanSet
  /\ self[field] # value
  /\ self' = [self EXCEPT ![field] = value]
  /\ calls' = calls - 1
  /\ mtimes' = Modified(mtimes, "Filter")
  /\ UNCHANGED <<input, outInfo, inUpdateExt, stencilUpdateExt, interp, phase, pending, outData,
                 stencilOutput, last, warnings, passesLeft>>

\* vtkAlgorithm::SetInputData with an empty image
SetInputData ==
  /\ CanSet
  /\ input # EmptyInput
  /\ input' = EmptyInput
  /\ calls' = calls - 1
  /\ mtimes' = Modified(mtimes, "Filter")
  /\ UNCHANGED <<self, outInfo, inUpdateExt, stencilUpdateExt, interp, phase, pending, outData,
                 stencilOutput, last, warnings, passesLeft>>

\* vtkAlgorithm::SetInputData with an image of bits
SetInputDataBit ==
  /\ CanSet
  /\ input # BitInput
  /\ input' = BitInput
  /\ calls' = calls - 1
  /\ mtimes' = Modified(mtimes, "Filter")
  /\ UNCHANGED <<self, outInfo, inUpdateExt, stencilUpdateExt, interp, phase, pending, outData,
                 stencilOutput, last, warnings, passesLeft>>

SetResliceAxes == \E m \in AxesChoices : Set("ResliceAxes", m)

SetResliceTransform == \E t \in TransformChoices : Set("ResliceTransform", t)

\* a SetOutputSpacing that only looks at the stored value
SetOutputSpacingValueOnly(v) ==
  /\ CanSet
  /\ self' = [self EXCEPT !.OutputSpacing = v, !.ComputeOutputSpacing = 0]
  /\ calls' = calls - 1
  /\ mtimes' = IF self.OutputSpacing # v THEN Modified(mtimes, "Filter") ELSE mtimes
  /\ UNCHANGED <<input, outInfo, inUpdateExt, stencilUpdateExt, interp, phase, pending, outData,
                 stencilOutput, last, warnings, passesLeft>>

\* vtkImageReslice::SetOutputSpacing
SetOutputSpacingTo(v) ==
  /\ CanSet
  /\ self' = [self EXCEPT !.OutputSpacing = v, !.ComputeOutputSpacing = 0]
  /\ calls' = calls - 1
  /\ mtimes' = IF self.OutputSpacing # v \/ self.ComputeOutputSpacing = 1
               THEN Modified(mtimes, "Filter") ELSE mtimes
  /\ UNCHANGED <<input, outInfo, inUpdateExt, stencilUpdateExt, interp, phase, pending, outData,
                 stencilOutput, last, warnings, passesLeft>>

SetOutputSpacing == \E v \in SpacingChoices : SetOutputSpacingTo(v)

\* vtkImageReslice::SetOutputSpacingToDefault
SetOutputSpacingToDefault ==
  /\ CanSet
  /\ self' = IF self.ComputeOutputSpacing = 0
             THEN [self EXCEPT !.OutputSpacing = Vec3(4, 4, 4), !.ComputeOutputSpacing = 1]
             ELSE self
  /\ calls' = calls - 1
  /\ mtimes' = IF self.ComputeOutputSpacing = 0 THEN Modified(mtimes, "Filter") ELSE mtimes
  /\ UNCHANGED <<input, outInfo, inUpdateExt, stencilUpdateExt, interp, phase, pending, outData,
                 stencilOutput, last, warnings, passesLeft>>

\* vtkImageReslice::SetOutputDirection
SetOutputDirectionTo(v) ==
  /\ CanSet
  /\ self' = [self EXCEPT !.OutputDirection = v, !.PassDirectionToOutput = 0]
  /\ calls' = calls - 1
  /\ mtimes' = IF self.OutputDirection # v \/ self.PassDirectionToOutput = 1
               THEN Modified(mtimes, "Filter") ELSE mtimes
  /\ UNCHANGED <<input, outInfo, inUpdateExt, stencilUpdateExt, interp, phase, pending, outData,
                 stencilOutput, last, warnings, passesLeft>>

SetOutputDirection == \E v \in DirectionChoices : SetOutputDirectionTo(v)

\* vtkImageReslice::SetOutputDirectionToDefault
SetOutputDirectionToDefault ==
  /\ CanSet
  /\ self' = IF self.PassDirectionToOutput = 0
             THEN [self EXCEPT !.OutputDirection = Identity3, !.PassDirectionToOutput = 1]
             ELSE self
  /\ calls' = calls - 1
  /\ mtimes' = IF self.PassDirectionToOutput = 0 THEN Modified(mtimes, "Filter") ELSE mtimes
  /\ UNCHANGED <<input, outInfo, inUpdateExt, stencilUpdateExt, interp, phase, pending, outData,
                 stencilOutput, last, warnings, passesLeft>>

\* vtkImageReslice::SetOutputOrigin
SetOutputOriginTo(v) ==
  /\ CanSet
  /\ self' = [self EXCEPT !.OutputOrigin = v, !.ComputeOutputOrigin = 0]
  /\ calls' = calls - 1
  /\ mtimes' = IF self.OutputOrigin # v \/ self.ComputeOutputOrigin = 1
               THEN Modified(mtimes, "Filter") ELSE mtimes
  /\ UNCHANGED <<input, outInfo, inUpdateExt, stencilUpdateExt, interp, phase, pending, outData,
                 stencilOutput, last, warnings, passesLeft>>

SetOutputOrigin == \E v \in OriginChoices : SetOutputOriginTo(v)

\* vtkImageReslice::SetOutputOriginToDefault
SetOutputOriginToDefault ==
  /\ CanSet
  /\ self' = IF self.ComputeOutputOrigin = 0
             THEN [self EXCEPT !.OutputOrigin = Vec3(0, 0, 0), !.ComputeOutputOrigin = 1]
             ELSE self
  /\ calls' = calls - 1
  /\ mtimes' = IF self.ComputeOutputOrigin = 0 THEN Modified(mtimes, "Filter") ELSE mtimes
  /\ UNCHANGED <<input, outInfo, inUpdateExt, stencilUpdateExt, interp, phase, pending, outData,
                 stencilOutput, last, warnings, passesLeft>>

\* vtkImageReslice::SetOutputExtent
SetOutputExtentTo(v) ==
  /\ CanSet
  /\ self' = [self EXCEPT !.OutputExtent = v, !.ComputeOutputExtent = 0]
  /\ calls' = calls - 1
  /\ mtimes' = IF self.OutputExtent # v \/ self.ComputeOutputExtent = 1
               THEN Modified(mtimes, "Filter") ELSE mtimes
  /\ UNCHANGED <<input, outInfo, inUpdateExt, stencilUpdateExt, interp, phase, pending, outData,
                 stencilOutput, last, warnings, passesLeft>>

SetOutputExtent == \E v \in ExtentChoices : SetOutputExtentTo(v)

\* vtkImageReslice::SetOutputExtentToDefault
SetOutputExtentToDefault ==
  /\ CanSet
  /\ self' = IF self.ComputeOutputExtent = 0
             THEN [self EXCEPT !.OutputExtent = Ext6(0, 0, 0, 0, 0, 0), !.ComputeOutputExtent = 1]
             ELSE self
  /\ calls' = calls - 1
  /\ mtimes' = IF self.ComputeOutputExtent = 0 THEN Modified(mtimes, "Filter") ELSE mtimes
  /\ UNCHANGED <<input, outInfo, inUpdateExt, stencilUpdateExt, interp, phase, pending, outData,
                 stencilOutput, last, warnings, passesLeft>>

SetBorder == Set("Border", 0)

SetBorderThickness == \E t \in ThicknessChoices : Set("BorderThickness", t)

SetInterpolationMode == \E m \in ModeChoices : Set("InterpolationMode", m)

SetSlabNumberOfSlices == \E n \in SlabChoices : Set("SlabNumberOfSlices", n)

SetBackgroundColor == \E c \in BackgroundChoices : Set("BackgroundColor", c)

SetStencilData == \E s \in StencilChoices : Set("Stencil", s)

SetGenerateStencilOutput == \E b \in {0, 1} : Set("GenerateStencilOutput", b)

SetOptimization == Set("Optimization", 0)

SetScalarShift == Set("ScalarShift", 4)

SetWrap == Set("Wrap", 1)

SetMirror == Set("Mirror", 1)

SetSplitMode == \E m \in {BEAM, BLOCK} : Set("SplitMode", m)

SetOutputDimensionality == \E d \in {1, 2} : Set("OutputDimensionality", d)

SetAutoCropOutput == Set("AutoCropOutput", 1)

SetInformationInput == \E i \in InformationChoices : Set("InformationInput", i)

\* vtkImageReslice::SetInterpolator
SetInterpolator ==
  \E i \in InterpolatorChoices :
    /\ CanSet
    /\ interp # i
    /\ interp' = i
    /\ calls' = calls - 1
    /\ mtimes' = Modified(mtimes, "Filter")
    /\ UNCHANGED <<self, input, outInfo, inUpdateExt, stencilUpdateExt, phase, pending, outData,
                   stencilOutput, last, warnings, passesLeft>>

\* an object the filter holds is modified in place by its owner: only the
\* object's own MTime moves
Touch(object) ==
  /\ CanSet
  /\ calls' = calls - 1
  /\ mtimes' = Modified(mtimes, object)
  /\ UNCHANGED <<self, input, outInfo, inUpdateExt, stencilUpdateExt, interp, phase, pending, outData,
                 stencilOutput, last, warnings, passesLeft>>

TouchResliceTransform == self.ResliceTransform # NULL /\ Touch("ResliceTransform")

\* the matrix of a homogeneous transform modified directly
TouchTransformMatrix ==
  /\ self.ResliceTransform # NULL
  /\ self.ResliceTransform.homogeneous
  /\ Touch("Matrix")

TouchResliceAxes == self.ResliceAxes # NULL /\ Touch("ResliceAxes")

TouchInterpolator == interp # NULL /\ Touch("Interpolator")

TouchInformationInput == self.InformationInput # NULL /\ Touch("InformationInput")

---------------------------------------------------------------------------
(* GetMTime *)

\* vtkImageReslice::GetMTime
GetMTime(this, interpolator, times) ==
  LET mTime0 == times.Filter
      mTime1 == IF this.ResliceTransform # NULL
                THEN Max2(times.ResliceTransform, mTime0) ELSE mTime0
      mTime2 == IF this.ResliceTransform # NULL /\ this.ResliceTransform.homogeneous
                THEN Max2(times.Matrix, mTime1) ELSE mTime1
      mTime3 == IF this.ResliceAxes # NULL THEN Max2(times.ResliceAxes, mTime2)
                ELSE mTime2
  IN IF interpolator # NULL THEN Max2(times.Interpolator, mTime3) ELSE mTime3

---------------------------------------------------------------------------
(* GetIndexMatrix *)

\* vtkIsIdentityMatrix
vtkIsIdentityMatrix(matrix) ==
  \A i \in 0..3 : \A j \in 0..3 : matrix[i][j] = Identity4[i][j]

\* the inMatrix of GetIndexMatrix: input coordinates to input indices
inMatrixOf(inSpacing, inOrigin) ==
  [i \in 0..3 |-> [j \in 0..3 |->
     IF i = 3 THEN Identity4[i][j]
     ELSE IF j = 3 THEN 0 - ((inOrigin[i] * 4) \div inSpacing[i])
     ELSE IF i = j THEN 16 \div inSpacing[i]
     ELSE 0]]

\* the outMatrix of GetIndexMatrix: output indices to output coordinates
outMatrixOf(outSpacing, outOrigin) ==
  [i \in 0..3 |-> [j \in 0..3 |->
     IF i = 3 THEN Identity4[i][j]
     ELSE IF j = 3 THEN outOrigin[i]
     ELSE IF i = j THEN outSpacing[j]
     ELSE 0]]

\* vtkImageReslice::GetIndexMatrix: the new IndexMatrix and OptimizedTransform
GetIndexMatrix(this, inInfo, out) ==
  LET transform0 == IF this.ResliceAxes # NULL THEN this.ResliceAxes.Element ELSE Identity4
      isHomogeneous == this.ResliceTransform # NULL /\ this.ResliceTransform.homogeneous
      transform1 == IF isHomogeneous
                    THEN Multiply4x4(this.ResliceTransform.matrix, transform0)
                    ELSE transform0
      OptimizedTransform == IF this.ResliceTransform # NULL /\ ~isHomogeneous
                            THEN this.ResliceTransform ELSE NULL
      isIdentity ==
        /\ vtkIsIdentityMatrix(transform1)
        /\ IF OptimizedTransform = NULL
           THEN \A i \in 0..2 : inInfo.Spacing[i] = out.Spacing[i]
                                /\ inInfo.Origin[i] = out.Origin[i]
           ELSE \A i \in 0..2 : out.Spacing[i] = 4 /\ out.Origin[i] = 0
      transform2 == IF ~isIdentity
                    THEN Multiply4x4(transform1, outMatrixOf(out.Spacing, out.Origin))
                    ELSE transform1
      transform3 == IF ~isIdentity /\ OptimizedTransform = NULL
                    THEN Multiply4x4(inMatrixOf(inInfo.Spacing, inInfo.Origin), transform2)
                    ELSE transform2
  IN [IndexMatrix |-> [Element |-> Array4x4(transform3)],
      OptimizedTransform |-> OptimizedTransform]

---------------------------------------------------------------------------
(* RequestInformation *)

\* the square root of a quarter-unit value that is a perfect square
Sqrt(r) == CHOOSE q \in 0..(4 * r) : q * q = 4 * r

\* vtkImageReslice::GetAutoCroppedOutputBounds (the direction matrices are
\* identity; the reslice axes enumerated are their own inverse)
GetAutoCroppedOutputBounds(this, inInfo) ==
  LET matrix == IF this.ResliceAxes # NULL THEN this.ResliceAxes.Element ELSE Identity4
      corner(i) == [j \in 0..2 |->
                      inInfo.WholeExtent[2 * j + ((i \div (IF j = 0 THEN 1 ELSE 2 * j)) % 2)]
                      * inInfo.Spacing[j] + inInfo.Origin[j]]
      moved(i) == IF this.ResliceTransform # NULL
                  THEN InverseTransformPoint(this.ResliceTransform, corner(i))
                  ELSE corner(i)
      point(i) == [j \in 0..2 |->
                     (matrix[j][0] * moved(i)[0] + matrix[j][1] * moved(i)[1]
                      + matrix[j][2] * moved(i)[2] + matrix[j][3] * 4) \div 4]
      points == {Array3(point(i)) : i \in 0..7}
  IN [n \in 0..5 |->
        IF n % 2 = 0
        THEN CHOOSE b \in {q[n \div 2] : q \in points} :
               \A q \in points : b <= q[n \div 2]
        ELSE CHOOSE b \in {q[n \div 2] : q \in points} :
               \A q \in points : b >= q[n \div 2]]

\* the output whole extent, spacing and origin computed by RequestInformation
\* (the direction matrices are identity)
OutputInformation(this, inInfo) ==
  LET inWholeExt == IF this.InformationInput # NULL
                    THEN this.InformationInput.WholeExtent ELSE inInfo.WholeExtent
      inSpacing == IF this.InformationInput # NULL
                   THEN this.InformationInput.Spacing ELSE inInfo.Spacing
      inOrigin == IF this.InformationInput # NULL
                  THEN this.InformationInput.Origin ELSE inInfo.Origin
      axes == IF this.ResliceAxes # NULL THEN this.ResliceAxes.Element ELSE Identity4
      sample == this.TransformInputSampling = 1
      center0 == [i \in 0..2 |->
                    ((inWholeExt[2 * i] + inWholeExt[2 * i + 1]) * inSpacing[i]) \div 2
                    + inOrigin[i]]
      \* center -= axes translation, then multiplied by the inverse (the transpose,
      \* the rotations enumerated being orthogonal) of the reslice rotation
      center1 == [i \in 0..2 |-> center0[i] - axes[i][3]]
      center == IF sample /\ this.ResliceAxes # NULL
                THEN [i \in 0..2 |->
                        (axes[0][i] * center1[0] + axes[1][i] * center1[1]
                         + axes[2][i] * center1[2]) \div 4]
                ELSE center0
      rotation == IF this.ResliceAxes # NULL THEN axes ELSE Identity4
      tmp(j, i) == (rotation[j][i] * rotation[j][i]) \div 4
      r(i) == tmp(0, i) + tmp(1, i) + tmp(2, i)
      s(i) == (((tmp(0, i) * Abs(inSpacing[0]) + tmp(1, i) * Abs(inSpacing[1])
                 + tmp(2, i) * Abs(inSpacing[2])) \div 4) * 4) \div r(i)
      d(i) == (((tmp(0, i) * (inWholeExt[1] - inWholeExt[0]) * Abs(inSpacing[0])
                 + tmp(1, i) * (inWholeExt[3] - inWholeExt[2]) * Abs(inSpacing[1])
                 + tmp(2, i) * (inWholeExt[5] - inWholeExt[4]) * Abs(inSpacing[2])) \div 4)
               * 16) \div (r(i) * Sqrt(r(i)))
      e(i) == ((tmp(0, i) * inWholeExt[0] + tmp(1, i) * inWholeExt[2]
                + tmp(2, i) * inWholeExt[4]) * 4) \div r(i)
      s1(i) == IF this.ComputeOutputSpacing = 0 THEN this.OutputSpacing[i] ELSE s(i)
      lo(i) == IF sample THEN Round(e(i)) ELSE inWholeExt[2 * i]
      hi(i) == IF sample THEN Round(4 * lo(i) + Abs((d(i) * 4) \div s1(i)))
               ELSE inWholeExt[2 * i + 1]
      outSpacing == [i \in 0..2 |->
                       IF this.ComputeOutputSpacing = 0 THEN this.OutputSpacing[i]
                       ELSE IF sample THEN s(i) ELSE inSpacing[i]]
      maxBounds == Array6(GetAutoCroppedOutputBounds(this, inInfo))
      cropped(i) == Round(4 * lo(i)
                          + Abs(((maxBounds[2 * i + 1] - maxBounds[2 * i]) * 4)
                                \div outSpacing[i]))
      outWholeExt == [n \in 0..5 |->
                        LET i == n \div 2 IN
                        IF i >= this.OutputDimensionality THEN 0
                        ELSE IF this.ComputeOutputExtent = 0 THEN this.OutputExtent[n]
                        ELSE IF n % 2 = 0 THEN lo(i)
                        ELSE IF this.AutoCropOutput = 1 THEN cropped(i)
                        ELSE hi(i)]
      pCenter == [i \in 0..2 |->
                    ((outWholeExt[2 * i] + outWholeExt[2 * i + 1]) * outSpacing[i]) \div 2]
      outOrigin == [i \in 0..2 |->
                      IF i >= this.OutputDimensionality THEN 0
                      ELSE IF this.ComputeOutputOrigin = 0 THEN this.OutputOrigin[i]
                      ELSE IF this.AutoCropOutput = 1
                      THEN maxBounds[2 * i] - outWholeExt[2 * i] * outSpacing[i]
                      ELSE center[i] - pCenter[i]]
  IN [WholeExtent |-> Array6(outWholeExt), Spacing |-> Array3(outSpacing),
      Origin |-> Array3(outOrigin)]

---------------------------------------------------------------------------
(* RequestInformationBase *)

\* vtkIsPermutationMatrix
vtkIsPermutationMatrix(matrix) ==
  /\ \A i \in 0..2 : matrix[3][i] = 0
  /\ matrix[3][3] = 4
  /\ \A j \in 0..2 : Cardinality({i \in 0..2 : matrix[i][j] # 0}) = 1

\* vtkCanUseNearestNeighbor
vtkCanUseNearestNeighbor(matrix, outExt) ==
  \A i \in 0..2 :
    LET nz == {j \in 0..2 : matrix[i][j] # 0} IN
    /\ nz # {}
    /\ LET j == CHOOSE c \in nz : \A c2 \in nz : c <= c2
           collapsed == outExt[2 * j] = outExt[2 * j + 1]
           x == IF collapsed THEN 0 ELSE matrix[i][j]
           y == IF collapsed THEN matrix[i][3] + matrix[i][j] * outExt[2 * i]
                ELSE matrix[i][3]
       IN FloorFrac(x) = 0 /\ FloorFrac(y) = 0

\* vtkAbstractImageInterpolator::IsSeparable of the default vtkImageInterpolator
IsSeparable == TRUE

\* vtkImageReslice::GetInterpolator: creates a vtkImageInterpolator on first use
GetInterpolator(this, interpolator) ==
  IF interpolator = NULL
  THEN [Class |-> "vtkImageInterpolator", InterpolationMode |-> this.InterpolationMode,
        BorderMode |-> VTK_IMAGE_BORDER_CLAMP, Tolerance |-> 0]
  ELSE interpolator

\* a RequestInformationBase that leaves an interpolator that exists at the mode
\* it has, unless nearest neighbour can be used
RequestInformationBaseKeeping(this, interpolator0, inInfo, out) ==
  LET interpolator == GetInterpolator(this, interpolator0)
      built == GetIndexMatrix(this, inInfo, out)
      permute == /\ this.Optimization = 1
                 /\ built.OptimizedTransform = NULL
                 /\ this.SlabSliceSpacingFraction = 4
                 /\ IsSeparable
                 /\ vtkIsPermutationMatrix(built.IndexMatrix.Element)
      interpolationMode ==
        IF permute /\ vtkCanUseNearestNeighbor(built.IndexMatrix.Element, out.WholeExtent)
        THEN VTK_NEAREST_INTERPOLATION
        ELSE IF interpolator0 # NULL /\ interpolator.Class = "vtkImageInterpolator"
        THEN interpolator.InterpolationMode
        ELSE this.InterpolationMode
      borderMode == IF this.Mirror = 1 THEN VTK_IMAGE_BORDER_MIRROR
                    ELSE IF this.Wrap = 1 THEN VTK_IMAGE_BORDER_REPEAT
                    ELSE VTK_IMAGE_BORDER_CLAMP
      tol0 == IF this.Border = 1 THEN this.BorderThickness ELSE 0
      tol1 == IF borderMode = VTK_IMAGE_BORDER_CLAMP THEN tol0 ELSE maxtol
      tol == IF tol1 > 0 THEN tol1 ELSE 0
  IN [self |-> [this EXCEPT !.IndexMatrix = built.IndexMatrix,
                            !.OptimizedTransform = built.OptimizedTransform,
                            !.UsePermuteExecute = IF permute THEN 1 ELSE 0],
      interp |-> IF interpolator.Class = "vtkImageInterpolator"
                 THEN [interpolator EXCEPT !.InterpolationMode = interpolationMode,
                                           !.BorderMode = borderMode,
                                           !.Tolerance = tol]
                 ELSE [interpolator EXCEPT !.BorderMode = borderMode,
                                           !.Tolerance = tol]]

\* vtkImageReslice::RequestInformationBase: the fields it writes in the filter and
\* in the interpolator
RequestInformationBase(this, interpolator0, inInfo, out) ==
  LET interpolator == GetInterpolator(this, interpolator0)
      built == GetIndexMatrix(this, inInfo, out)
      permute == /\ this.Optimization = 1
                 /\ built.OptimizedTransform = NULL
                 /\ this.SlabSliceSpacingFraction = 4
                 /\ IsSeparable
                 /\ vtkIsPermutationMatrix(built.IndexMatrix.Element)
      interpolationMode ==
        IF permute /\ vtkCanUseNearestNeighbor(built.IndexMatrix.Element, out.WholeExtent)
        THEN VTK_NEAREST_INTERPOLATION
        ELSE this.InterpolationMode
      borderMode == IF this.Mirror = 1 THEN VTK_IMAGE_BORDER_MIRROR
                    ELSE IF this.Wrap = 1 THEN VTK_IMAGE_BORDER_REPEAT
                    ELSE VTK_IMAGE_BORDER_CLAMP
      \* the minimum tolerance, VTK_INTERPOLATE_FLOOR_TOL = 2^-17, is below a quarter
      tol0 == IF this.Border = 1 THEN this.BorderThickness ELSE 0
      tol1 == IF borderMode = VTK_IMAGE_BORDER_CLAMP THEN tol0 ELSE maxtol
      tol == IF tol1 > 0 THEN tol1 ELSE 0
  IN [self |-> [this EXCEPT !.IndexMatrix = built.IndexMatrix,
                            !.OptimizedTransform = built.OptimizedTransform,
                            !.UsePermuteExecute = IF permute THEN 1 ELSE 0],
      interp |-> IF interpolator.Class = "vtkImageInterpolator"
                 THEN [interpolator EXCEPT !.InterpolationMode = interpolationMode,
                                           !.BorderMode = borderMode,
                                           !.Tolerance = tol]
                 ELSE [interpolator EXCEPT !.BorderMode = borderMode,
                                           !.Tolerance = tol]]

\* a RequestInformation that lets an extent fixed by the user override the
\* output dimensionality
RequestInformationUncollapsed ==
  /\ phase = "idle"
  /\ passesLeft > 0
  /\ \E collapsed \in {OutputInformation(self, input)} :
     \E out \in {IF self.ComputeOutputExtent = 0
                 THEN [collapsed EXCEPT !.WholeExtent = self.OutputExtent]
                 ELSE collapsed} :
     \E base \in {RequestInformationBase(self, interp, input, out)} :
       /\ outInfo' = out
       /\ self' = base.self
       /\ interp' = base.interp
       /\ mtimes' = IF base.interp # interp THEN Modified(mtimes, "Interpolator")
                    ELSE mtimes
  /\ phase' = "info"
  /\ passesLeft' = passesLeft - 1
  /\ UNCHANGED <<input, inUpdateExt, stencilUpdateExt, pending, outData, stencilOutput, last,
                 warnings, calls>>

\* vtkImageReslice::RequestInformation
RequestInformation ==
  /\ phase = "idle"
  /\ passesLeft > 0
  /\ \E out \in {OutputInformation(self, input)} :
     \E base \in {RequestInformationBase(self, interp, input, out)} :
       /\ outInfo' = out
       /\ self' = base.self
       /\ interp' = base.interp
       /\ mtimes' = IF base.interp # interp THEN Modified(mtimes, "Interpolator")
                    ELSE mtimes
  /\ phase' = "info"
  /\ passesLeft' = passesLeft - 1
  /\ UNCHANGED <<input, inUpdateExt, stencilUpdateExt, pending, outData, stencilOutput, last,
                 warnings, calls>>

---------------------------------------------------------------------------
(* RequestUpdateExtent *)

\* vtkAbstractImageInterpolator::ComputeSupportSize of vtkImageInterpolator
ComputeSupportSize(interpolator) ==
  LET size == CASE interpolator.Class # "vtkImageInterpolator" ->
                     interpolator.SplineDegree + 1
                [] interpolator.InterpolationMode = VTK_NEAREST_INTERPOLATION -> 1
                [] interpolator.InterpolationMode = VTK_RESLICE_LINEAR -> 2
                [] OTHER -> 4
  IN Vec3(size, size, size)

\* corner jj of the output extent, mapped to input indices
CornerPoint(matrix, outExt, jj) ==
  LET idX == outExt[jj % 2]
      idY == outExt[2 + ((jj \div 2) % 2)]
      idZ == outExt[4 + ((jj \div 4) % 2)]
      point0 == [i \in 0..3 |->
                   matrix[i][3] + idZ * matrix[i][2] + idY * matrix[i][1]
                   + idX * matrix[i][0]]
  IN [i \in 0..3 |->
        IF point0[3] # 4 /\ i < 3 THEN (point0[i] * 4) \div point0[3]
        ELSE point0[i]]

\* one corner of the loop over the 8 corners of the output extent: the input
\* extent accumulated so far, widened by what the kernel needs around the point
UpdatePoint(point, supportSize, inExt) ==
  LET lower(j) ==
        LET kernelSize == supportSize[j]
            extra == (kernelSize + 1) \div 2 - 1
        IN IF kernelSize % 2 = 0
           THEN IF Floor(point[j]) - extra < inExt[2 * j]
                THEN Floor(point[j]) - extra ELSE inExt[2 * j]
           ELSE IF Round(point[j]) < inExt[2 * j]
                THEN Round(point[j]) - extra ELSE inExt[2 * j]
      upper(j) ==
        LET kernelSize == supportSize[j]
            extra == (kernelSize + 1) \div 2 - 1
            k == Floor(point[j]) + (IF FloorFrac(point[j]) # 0 THEN 1 ELSE 0)
        IN IF kernelSize % 2 = 0
           THEN IF k + extra > inExt[2 * j + 1] THEN k + extra ELSE inExt[2 * j + 1]
           ELSE IF Round(point[j]) > inExt[2 * j + 1]
                THEN Round(point[j]) + extra ELSE inExt[2 * j + 1]
  IN Ext6(lower(0), upper(0), lower(1), upper(1), lower(2), upper(2))

UpdateCorner(matrix, outExt, supportSize, inExt, jj) ==
  UpdatePoint(Array4(CornerPoint(matrix, outExt, jj)), supportSize, inExt)

RECURSIVE UpdateCorners(_, _, _, _, _)
UpdateCorners(matrix, outExt, supportSize, inExt, jj) ==
  IF jj >= 8 THEN inExt
  ELSE UpdateCorners(matrix, outExt, supportSize,
                     UpdateCorner(matrix, outExt, supportSize, inExt, jj), jj + 1)

\* the output extent whose corners are mapped: the requested extent, grown along
\* Z by the slab
GrownExtent(this, out) ==
  LET grow == IF this.SlabNumberOfSlices > 1
              THEN (this.SlabNumberOfSlices + 1) \div 2 ELSE 0
  IN Array6([n \in 0..5 |->
               IF n = 4 THEN out.WholeExtent[4] - grow
               ELSE IF n = 5 THEN out.WholeExtent[5] + grow
               ELSE out.WholeExtent[n]])

\* the input extent that the loop over the 8 corners leaves, before the clipping
CornerExtent(this, interpolator, inInfo, out) ==
  Array6(UpdateCorners(GetIndexMatrix(this, inInfo, out).IndexMatrix.Element,
                       GrownExtent(this, out), ComputeSupportSize(interpolator),
                       [n \in 0..5 |-> IF n % 2 = 0 THEN VTK_INT_MAX ELSE VTK_INT_MIN],
                       0))

\* a clipping that takes every interval that starts below the whole extent as
\* a miss
ClipAxisBelowMisses(lo0, hi0, wholeLo, wholeHi, wrap) ==
  LET below == lo0 < wholeLo
      lo1 == IF below THEN wholeLo ELSE lo0
      hi1 == IF below /\ wrap THEN wholeHi
             ELSE IF below /\ hi0 < wholeLo THEN wholeLo ELSE hi0
      miss1 == below /\ ~wrap
      above == hi1 > wholeHi
      hi2 == IF above THEN wholeHi ELSE hi1
      miss2 == above /\ ~wrap /\ lo1 > wholeHi
      lo2 == IF above /\ wrap THEN wholeLo
             ELSE IF miss2 THEN (IF wholeHi < wholeLo THEN wholeLo ELSE wholeHi)
             ELSE lo1
  IN [lo |-> lo2, hi |-> hi2, hit |-> ~(miss1 \/ miss2)]

\* a clipping that leaves the lower bound where it is when the interval lies
\* above the whole extent
ClipAxisInverted(lo0, hi0, wholeLo, wholeHi, wrap) ==
  LET below == lo0 < wholeLo
      lo1 == IF below THEN wholeLo ELSE lo0
      hi1 == IF below /\ wrap THEN wholeHi
             ELSE IF below /\ hi0 < wholeLo THEN wholeLo ELSE hi0
      miss1 == below /\ ~wrap /\ hi0 < wholeLo
      above == hi1 > wholeHi
      hi2 == IF above THEN wholeHi ELSE hi1
      miss2 == above /\ ~wrap /\ lo1 > wholeHi
      lo2 == IF above /\ wrap THEN wholeLo ELSE lo1
  IN [lo |-> lo2, hi |-> hi2, hit |-> ~(miss1 \/ miss2)]

\* a clipping that forgets the wrap when the interval reaches above the whole
\* extent
ClipAxisWrapBelowOnly(lo0, hi0, wholeLo, wholeHi, wrap) ==
  LET below == lo0 < wholeLo
      lo1 == IF below THEN wholeLo ELSE lo0
      hi1 == IF below /\ wrap THEN wholeHi
             ELSE IF below /\ hi0 < wholeLo THEN wholeLo ELSE hi0
      miss1 == below /\ ~wrap /\ hi0 < wholeLo
      above == hi1 > wholeHi
      hi2 == IF above THEN wholeHi ELSE hi1
      miss2 == above /\ ~wrap /\ lo1 > wholeHi
      lo2 == IF miss2 THEN (IF wholeHi < wholeLo THEN wholeLo ELSE wholeHi)
             ELSE lo1
  IN [lo |-> lo2, hi |-> hi2, hit |-> ~(miss1 \/ miss2)]

\* the clipping of one axis to the whole extent: the clipped interval and
\* whether the input extent is still hit
ClipAxis(lo0, hi0, wholeLo, wholeHi, wrap) ==
  LET below == lo0 < wholeLo
      lo1 == IF below THEN wholeLo ELSE lo0
      hi1 == IF below /\ wrap THEN wholeHi
             ELSE IF below /\ hi0 < wholeLo THEN wholeLo ELSE hi0
      miss1 == below /\ ~wrap /\ hi0 < wholeLo
      above == hi1 > wholeHi
      hi2 == IF above THEN wholeHi ELSE hi1
      miss2 == above /\ ~wrap /\ lo1 > wholeHi
      lo2 == IF above /\ wrap THEN wholeLo
             ELSE IF miss2 THEN (IF wholeHi < wholeLo THEN wholeLo ELSE wholeHi)
             ELSE lo1
  IN [lo |-> lo2, hi |-> hi2, hit |-> ~(miss1 \/ miss2)]

\* the clipping of the three axes of an extent to the whole extent
ClipExtent(inExt, wholeExt, wrap) ==
  [k \in 0..2 |->
     ClipAxis(inExt[2 * k], inExt[2 * k + 1], wholeExt[2 * k], wholeExt[2 * k + 1], wrap)]

\* the clipped extent and the flag, from the clipping of each axis
Clipped(clip) ==
  [inExt |-> [n \in 0..5 |-> IF n % 2 = 0 THEN clip[n \div 2].lo
                              ELSE clip[n \div 2].hi],
   HitInputExtent |-> IF \A k \in 0..2 : clip[k].hit THEN 1 ELSE 0]

\* an update extent that comes from the corners under every reslice transform
UpdateExtentAnalysed(this, interpolator, inInfo, out) ==
  Clipped(ClipExtent(CornerExtent(this, interpolator, inInfo, out),
                     inInfo.WholeExtent, this.Wrap = 1 \/ this.Mirror = 1))

\* vtkImageReslice::RequestUpdateExtent: the input update extent and HitInputExtent
UpdateExtent(this, interpolator, inInfo, out) ==
  IF this.ResliceTransform # NULL /\ ~this.ResliceTransform.homogeneous
  THEN [inExt |-> inInfo.WholeExtent, HitInputExtent |-> 1]
  ELSE Clipped(ClipExtent(CornerExtent(this, interpolator, inInfo, out),
                          inInfo.WholeExtent, this.Wrap = 1 \/ this.Mirror = 1))

\* vtkImageReslice::RequestUpdateExtent: the update extent given to the stencil
\* input when one is connected; a non-homogeneous reslice transform makes the
\* method return before, and outExt has been grown by the slab by then
StencilUpdateExtent(this, out, stencilExt) ==
  IF this.ResliceTransform # NULL /\ ~this.ResliceTransform.homogeneous THEN stencilExt
  ELSE IF this.Stencil # NULL THEN GrownExtent(this, out)
  ELSE stencilExt

RequestUpdateExtent ==
  /\ phase = "info"
  /\ \E u \in {UpdateExtent(self, interp, input, outInfo)} :
     \E built \in {GetIndexMatrix(self, input, outInfo)} :
       /\ inUpdateExt' = u.inExt
       /\ stencilUpdateExt' = StencilUpdateExtent(self, outInfo, stencilUpdateExt)
       /\ self' = IF ~(self.ResliceTransform # NULL /\ ~self.ResliceTransform.homogeneous)
                  THEN [self EXCEPT !.HitInputExtent = u.HitInputExtent,
                                    !.IndexMatrix = built.IndexMatrix,
                                    !.OptimizedTransform = built.OptimizedTransform]
                  ELSE [self EXCEPT !.HitInputExtent = 1]
  /\ phase' = "extent"
  /\ UNCHANGED <<input, outInfo, interp, pending, outData, stencilOutput, last,
                 warnings, calls, passesLeft, mtimes>>

\* vtkAlgorithm::UpdateInformation followed by PropagateUpdateExtent: the pass
\* ends after the update extent has been computed, no data being requested
UpdateExtentReturn ==
  /\ phase = "extent"
  /\ phase' = "idle"
  /\ UNCHANGED <<self, input, outInfo, inUpdateExt, stencilUpdateExt, interp, pending, outData,
                 stencilOutput, last, warnings, calls, passesLeft, mtimes>>

---------------------------------------------------------------------------
(* The image, the iterator and the interpolator that the executors use *)

\* floating-point values are held in units of 1/192: trilinear weights (64ths)
\* and the mean of up to four samples are exact
FloatUnit == 64 * 3

\* the content of a float buffer straight after new F[...]
Uninitialized == 0 - 1

\* the values an uninitialised float can convert to
GarbageChoices == {0, 77}

\* vtkInterpolateRound of a float into the unsigned char output; what an
\* uninitialised float converts to is left open
vtkInterpolateRound(val) ==
  IF val = Uninitialized THEN Uninitialized
  ELSE ((2 * val + FloatUnit) \div (2 * FloatUnit)) % 256

\* vtkResliceClamp of a float into the unsigned char output
vtkResliceClamp(val) ==
  IF val = Uninitialized THEN Uninitialized
  ELSE vtkInterpolateRound(Max2(0, Min2(val, 255 * FloatUnit)))

\* vtkCopyBackgroundColor: the background pixel in the output type
Background(this) == Max2(0, Min2(this.BackgroundColor, 255))

\* vtkImageData::ComputePointId: the offset of a voxel in the scalars of an image
IdOf(dataExt, x, y, z) ==
  (x - dataExt[0])
  + (dataExt[1] - dataExt[0] + 1)
    * ((y - dataExt[2]) + (dataExt[3] - dataExt[2] + 1) * (z - dataExt[4]))

\* vtkImageData::GetContinuousIncrements for one component
ContinuousIncrements(dataExt, ext) ==
  [outIncY |-> (dataExt[1] - dataExt[0] + 1) - (ext[1] - ext[0] + 1),
   outIncZ |-> ((dataExt[3] - dataExt[2] + 1) - (ext[3] - ext[2] + 1))
               * (dataExt[1] - dataExt[0] + 1)]

\* the voxels of an extent
VoxelsOf(ext) == (ext[0]..ext[1]) \X (ext[2]..ext[3]) \X (ext[4]..ext[5])

\* vtkImagePointDataIterator: the spans of one row from x on, alternately in and
\* out of the stencil
RECURSIVE RowSpans(_, _, _, _, _)
RowSpans(stencil, x, xmax, y, z) ==
  IF x > xmax THEN <<>>
  ELSE LET in == InStencil(stencil, x, y, z)
           end == CHOOSE e \in x..xmax :
                    /\ \A k \in x..e : InStencil(stencil, k, y, z) = in
                    /\ e = xmax \/ InStencil(stencil, e + 1, y, z) # in
       IN <<[x0 |-> x, x1 |-> end, y |-> y, z |-> z, inStencil |-> in]>>
          \o RowSpans(stencil, end + 1, xmax, y, z)

\* vtkImagePointDataIterator: all spans of an extent, rows in Y then Z order
RECURSIVE Spans(_, _, _, _)
Spans(stencil, ext, y, z) ==
  IF ext[1] < ext[0] \/ ext[3] < ext[2] \/ z > ext[5] THEN <<>>
  ELSE IF y > ext[3] THEN Spans(stencil, ext, ext[2], z + 1)
  ELSE RowSpans(stencil, ext[0], ext[1], y, z) \o Spans(stencil, ext, y + 1, z)

\* an insertion that files the run under the row with Y and Z exchanged
InsertNextExtentTransposed(outputStencil, runs, x0, x1, y, z) ==
  IF outputStencil THEN Append(runs, <<x0, x1, z, y>>) ELSE runs

\* vtkImageStencilData::InsertNextExtent, when an output stencil is generated
InsertNextExtent(outputStencil, runs, x0, x1, y, z) ==
  IF outputStencil THEN Append(runs, <<x0, x1, y, z>>) ELSE runs

\* vtkInterpolationMath::Clamp, Wrap and Mirror of an index on one axis
BorderIndex(borderMode, a, lo, hi) ==
  LET n == hi - lo + 1
      m == (a - lo) % (2 * n)
  IN CASE borderMode = VTK_IMAGE_BORDER_REPEAT -> lo + ((a - lo) % n)
       [] borderMode = VTK_IMAGE_BORDER_MIRROR ->
            IF m < n THEN lo + m ELSE lo + (2 * n - 1 - m)
       [] OTHER -> Max2(lo, Min2(a, hi))

\* vtkAbstractImageInterpolator::CheckBoundsIJK
CheckBoundsIJK(interpolator, inExt, point) ==
  \A i \in 0..2 :
    /\ point[i] >= 4 * inExt[2 * i] - interpolator.Tolerance
    /\ point[i] <= 4 * inExt[2 * i + 1] + interpolator.Tolerance

\* the two input indices and weights (in quarters) of one axis of the kernel
AxisWeights(interpolator, p, lo, hi) ==
  IF interpolator.InterpolationMode = VTK_NEAREST_INTERPOLATION
  THEN <<[i |-> BorderIndex(interpolator.BorderMode, Round(p), lo, hi), w |-> 4],
         [i |-> BorderIndex(interpolator.BorderMode, Round(p), lo, hi), w |-> 0]>>
  ELSE <<[i |-> BorderIndex(interpolator.BorderMode, Floor(p), lo, hi),
          w |-> 4 - FloorFrac(p)],
         [i |-> BorderIndex(interpolator.BorderMode, Floor(p) + 1, lo, hi),
          w |-> FloorFrac(p)]>>

\* the sum of the eight voxels of the kernel, weighted on each axis
KernelSum(tx, ty, tz) ==
  LET T(a, b, c) == tx[a].w * ty[b].w * tz[c].w * InputScalar(tx[a].i, ty[b].i, tz[c].i)
  IN (FloatUnit \div 64)
     * (T(1, 1, 1) + T(1, 1, 2) + T(1, 2, 1) + T(1, 2, 2)
        + T(2, 1, 1) + T(2, 1, 2) + T(2, 2, 1) + T(2, 2, 2))

\* vtkAbstractImageInterpolator::InterpolateIJK: nearest or trilinear
InterpolateIJK(interpolator, inExt, point) ==
  KernelSum(AxisWeights(interpolator, point[0], inExt[0], inExt[1]),
            AxisWeights(interpolator, point[1], inExt[2], inExt[3]),
            AxisWeights(interpolator, point[2], inExt[4], inExt[5]))

\* the input axis that an output axis of a permutation matrix maps to
InputAxisOf(newmat, j) == CHOOSE k \in 0..2 : newmat[k][j] # 0

\* the position on its input axis of an index along output axis j
PermutePosition(newmat, j, idx) ==
  newmat[InputAxisOf(newmat, j)][3] + idx * newmat[InputAxisOf(newmat, j)][j]

\* the point of the input that the weight tables stand for at an output index
PermutePoint(newmat, x, y, z) ==
  [k \in 0..2 |-> newmat[k][3] + x * newmat[k][0] + y * newmat[k][1] + z * newmat[k][2]]

\* whether the tables sample in bounds at an index along output axis j
PermuteInBounds(interpolator, inExt, newmat, j, idx) ==
  LET k == InputAxisOf(newmat, j)
      p == PermutePosition(newmat, j, idx)
  IN /\ p >= 4 * inExt[2 * k] - interpolator.Tolerance
     /\ p <= 4 * inExt[2 * k + 1] + interpolator.Tolerance

\* vtkAbstractImageInterpolator::PrecomputeWeightsForExtent: the clipExt, on each
\* axis the first run of indices of the extent that sample in bounds
PrecomputeWeightsForExtent(interpolator, inExt, newmat, extent) ==
  LET inb(j) == {i \in extent[2 * j]..extent[2 * j + 1] :
                   PermuteInBounds(interpolator, inExt, newmat, j, i)}
      first(j) == CHOOSE i \in inb(j) : \A i2 \in inb(j) : i <= i2
      last1(j) == CHOOSE e \in first(j)..extent[2 * j + 1] :
                    /\ \A i \in first(j)..e : i \in inb(j)
                    /\ e = extent[2 * j + 1] \/ (e + 1) \notin inb(j)
      validClip == \A j \in 0..2 : inb(j) # {}
  IN [n \in 0..5 |->
        IF ~validClip THEN (IF n % 2 = 0 THEN extent[n] ELSE extent[n - 1] - 1)
        ELSE IF n % 2 = 0 THEN first(n \div 2) ELSE last1(n \div 2)]

\* vtkAbstractImageInterpolator::InterpolateRow: one voxel of the row
InterpolateRow(interpolator, inExt, newmat, x, y, z) ==
  InterpolateIJK(interpolator, inExt, PermutePoint(newmat, x, y, z))

---------------------------------------------------------------------------
(* The tile executors.  An execution is returned as what it did: the writes to
   the output scalars in order (offset, value and the kind of write), the runs
   given to InsertNextExtent in order, and the input points it interpolated. *)

\* a fill that runs one pixel past the n pixels asked for
SetPixelsOneMore(outPtr, pixel, n) ==
  [k \in 1..(Max2(n, 0) + 1) |-> [off |-> outPtr + k - 1, val |-> pixel, kind |-> "fill"]]

\* setpixels: n copies of the background pixel from outPtr on
SetPixels(outPtr, pixel, n) ==
  [k \in 1..Max2(n, 0) |-> [off |-> outPtr + k - 1, val |-> pixel, kind |-> "fill"]]

\* vtkDataArray::GetDataTypeMin and GetDataTypeMax of the integer scalar types
\* whose range fits the arithmetic of the model, in whole units
IntegerTypes == {"signed char", "unsigned char", "short", "unsigned short"}

GetDataTypeMin(dataType) ==
  CASE dataType = "signed char" -> -128
    [] dataType = "short" -> -32768
    [] OTHER -> 0

GetDataTypeMax(dataType) ==
  CASE dataType = "signed char" -> 127
    [] dataType = "unsigned char" -> 255
    [] dataType = "short" -> 32767
    [] OTHER -> 65535

\* the forceClamping flag both executors hand to vtkGetConversionFunc
ForceClamping(interpolationMode, nsamples, slabMode) ==
  \/ interpolationMode > VTK_RESLICE_LINEAR
  \/ (nsamples > 1 /\ slabMode = VTK_IMAGE_SLAB_SUM)

\* vtkGetConversionFunc without the exchange of checkMin and checkMax
vtkGetConversionFuncUnswapped(inputType, dataType, scalarShift, scalarScale, forceClamping0) ==
  LET floating == dataType \in {"float", "double"}
      checkMin == (4 * GetDataTypeMin(inputType) + scalarShift) * scalarScale
      checkMax == (4 * GetDataTypeMax(inputType) + scalarShift) * scalarScale
      forceClamping ==
        IF ~floating /\ ~forceClamping0
        THEN checkMin < 16 * GetDataTypeMin(dataType) \/ checkMax > 16 * GetDataTypeMax(dataType)
        ELSE forceClamping0
  IN IF dataType \notin DispatchedTypes THEN NULL
     ELSE IF forceClamping /\ ~floating THEN [name |-> "Clamp"]
     ELSE [name |-> "Convert"]

\* vtkGetConversionFunc: scalarShift and scalarScale in quarter units, the
\* products (v + shift) * scale in sixteenths
vtkGetConversionFunc(inputType, dataType, scalarShift, scalarScale, forceClamping0) ==
  LET floating == dataType \in {"float", "double"}
      check0 == (4 * GetDataTypeMin(inputType) + scalarShift) * scalarScale
      check1 == (4 * GetDataTypeMax(inputType) + scalarShift) * scalarScale
      checkMin == IF check0 > check1 THEN check1 ELSE check0
      checkMax == IF check0 > check1 THEN check0 ELSE check1
      forceClamping ==
        IF ~floating /\ ~forceClamping0
        THEN checkMin < 16 * GetDataTypeMin(dataType) \/ checkMax > 16 * GetDataTypeMax(dataType)
        ELSE forceClamping0
  IN IF dataType \notin DispatchedTypes THEN NULL
     ELSE IF forceClamping /\ ~floating THEN [name |-> "Clamp"]
     ELSE [name |-> "Convert"]

\* the conversion selected for the unsigned char scalars of the input images
ConversionFor(this, forceClamping) ==
  vtkGetConversionFunc("unsigned char", "unsigned char", this.ScalarShift,
                       this.ScalarScale, forceClamping).name

\* vtkImageResliceRescaleScalars on the first n floats: the shift and the scale
\* are in quarter units, a float that was never written stays what it is
vtkImageResliceRescaleScalars(floatData, n, scalarShift, scalarScale) ==
  <<>> \o [k \in 1..Len(floatData) |->
            IF k > n \/ floatData[k] = Uninitialized THEN floatData[k]
            ELSE ((floatData[k] + (scalarShift * FloatUnit) \div 4) * scalarScale) \div 4]

\* vtkImageResliceConversion::Convert and ::Clamp of n floats from slot src on
ConvertPixels(conversion, outPtr, floatPtr, src, n) ==
  [k \in 1..Max2(n, 0) |->
     [off |-> outPtr + k - 1,
      val |-> IF conversion = "Clamp" THEN vtkResliceClamp(floatPtr[src + k])
              ELSE vtkInterpolateRound(floatPtr[src + k]),
      kind |-> "convert"]]

RECURSIVE SumSeq(_)
SumSeq(vals) == IF vals = <<>> THEN 0 ELSE Head(vals) + SumSeq(Tail(vals))

\* vtkGetCompositeFunc and vtkImageResliceComposite, without trapezoid integration
\* (SlabTrapezoidIntegration is off in every state)
Composite(slabMode, vals) ==
  CASE slabMode = VTK_IMAGE_SLAB_MIN ->
         CHOOSE v \in {vals[k] : k \in 1..Len(vals)} : \A k \in 1..Len(vals) : v <= vals[k]
    [] slabMode = VTK_IMAGE_SLAB_MAX ->
         CHOOSE v \in {vals[k] : k \in 1..Len(vals)} : \A k \in 1..Len(vals) : v >= vals[k]
    [] slabMode = VTK_IMAGE_SLAB_SUM -> SumSeq(vals)
    [] OTHER -> SumSeq(vals) \div Len(vals)

NoExecution == [writes |-> <<>>, runs |-> <<>>, samples |-> {}, floats |-> {}]

\* what an execution did, st being the state that its loops stopped in; floats
\* are the slots of the float row that the general path stored to or read from
Executed(st) ==
  [writes |-> st.writes, runs |-> st.runs, samples |-> st.samples, floats |-> st.floats]

\* vtkImageResliceClearExecute
RECURSIVE ClearSpans(_, _, _, _, _)
ClearSpans(this, dataExt, outExt, spans, n) ==
  IF n > Len(spans) THEN <<>>
  ELSE SetPixels(IdOf(dataExt, spans[n].x0, spans[n].y, spans[n].z), Background(this),
                 outExt[1] - outExt[0] + 1)
       \o ClearSpans(this, dataExt, outExt, spans, n + 1)

vtkImageResliceClearExecute(this, dataExt, outExt) ==
  [NoExecution EXCEPT
     !.writes = ClearSpans(this, dataExt, outExt, Spans(NULL, outExt, outExt[2], outExt[4]), 1)]

\* a float row with room for the pixels of a row only
FloatRowOfSpan(outExt, nsamples) == outExt[1] - outExt[0] + 1

\* the number of floats vtkImageResliceExecute allocates for floatPtr, for one
\* component
FloatRowSize(outExt, nsamples) == outExt[1] - outExt[0] + nsamples

\* what vtkImageResliceExecute computes before its loop
GeneralSetup(this, interpolator, inInfo, dataExt, outExt) ==
  LET nsamples == IF this.SlabNumberOfSlices > 1 THEN this.SlabNumberOfSlices ELSE 1
      newmat == this.IndexMatrix.Element
      newtrans == this.OptimizedTransform
      perspective == newmat[3][0] # 0 \/ newmat[3][1] # 0 \/ newmat[3][2] # 0
                     \/ newmat[3][3] # 4
      rescaleScalars == this.ScalarShift # 0 \/ this.ScalarScale # 4
      optimizeNearest ==
        /\ interpolator.InterpolationMode = VTK_NEAREST_INTERPOLATION
        /\ interpolator.BorderMode = VTK_IMAGE_BORDER_CLAMP
        /\ ~(newtrans # NULL \/ perspective \/ this.HasConvertScalars = 1 \/ rescaleScalars)
        /\ this.Border = 1
        /\ nsamples <= 1
      forceClamping ==
        ForceClamping(interpolator.InterpolationMode, nsamples, this.SlabMode)
  IN [this |-> this, interpolator |-> interpolator, inInfo |-> inInfo,
      inExt |-> inInfo.WholeExtent, dataExt |-> dataExt, outExt |-> outExt,
      nsamples |-> nsamples, newmat |-> newmat,
      newtrans |-> newtrans, perspective |-> perspective,
      optimizeNearest |-> optimizeNearest, rescaleScalars |-> rescaleScalars,
      outputStencil |-> this.GenerateStencilOutput = 1,
      conversion |-> ConversionFor(this, forceClamping),
      floatSize |-> IF optimizeNearest THEN 0 ELSE FloatRowSize(outExt, nsamples)]

\* vtkResliceApplyTransform
vtkResliceApplyTransform(inInfo, inPoint) ==
  [i \in 0..2 |->
     ((InternalTransformPoint(inPoint)[i] - inInfo.Origin[i]) * 4) \div inInfo.Spacing[i]]

\* the input point of slab sample number sample of voxel (idX, idY, idZ) in
\* vtkImageResliceExecute
GeneralPoint(c, idX, idY, idZ, sample) ==
  LET inPoint2 == [i \in 0..3 |->
                     c.newmat[i][3] + idZ * c.newmat[i][2] + idY * c.newmat[i][1]
                     + idX * c.newmat[i][0]]
      \* s = (sample - 0.5 * (nsamples - 1)) * slabSampleSpacing, in eighths
      s == (2 * sample - (c.nsamples - 1)) * c.this.SlabSliceSpacingFraction
      inPoint3 == IF c.nsamples > 1
                  THEN [i \in 0..3 |-> inPoint2[i] + (s * c.newmat[i][2]) \div 8]
                  ELSE inPoint2
      divided == IF c.perspective
                 THEN [i \in 0..2 |-> (inPoint3[i] * 4) \div inPoint3[3]]
                 ELSE [i \in 0..2 |-> inPoint3[i]]
      inPoint == IF c.newtrans # NULL THEN vtkResliceApplyTransform(c.inInfo, divided)
                 ELSE divided
  IN Vec3(inPoint[0], inPoint[1], inPoint[2])

\* the slab sample points of a voxel that are in bounds, in slab order
GeneralInside(c, idX, idY, idZ) ==
  SelectSeq([n \in 1..c.nsamples |-> GeneralPoint(c, idX, idY, idZ, n - 1)],
            LAMBDA q : CheckBoundsIJK(c.interpolator, c.inExt, q))

\* the values that InterpolateIJK gives at a sequence of points
GeneralValues(c, inside) ==
  <<>> \o [k \in 1..Len(inside) |-> InterpolateIJK(c.interpolator, c.inExt, inside[k])]

\* one turn of the for loop over idX: the values of the in-bounds samples are
\* stored from tmpPtr on and composited into the slot at tmpPtr
GeneralTurn(c, r, inside, vals) ==
  LET sampleCount == Len(inside)
      stored == SubSeq(r.floatPtr, 1, r.tmpPtr) \o vals
                \o SubSeq(r.floatPtr, r.tmpPtr + sampleCount + 1, Len(r.floatPtr))
      isInBounds == sampleCount > 0
  IN [r EXCEPT
        !.idX = r.idX + 1,
        !.isInBounds = isInBounds,
        !.wasInBounds = IF r.idX > r.idXmin THEN r.wasInBounds ELSE isInBounds,
        !.tmpPtr = r.tmpPtr + 1,
        !.floatPtr = IF sampleCount > 1
                     THEN [stored EXCEPT ![r.tmpPtr + 1] = Composite(c.this.SlabMode, vals)]
                     ELSE stored,
        !.floats = r.floats \cup {r.tmpPtr + k - 1 : k \in 1..sampleCount},
        !.samples = r.samples \cup
           {[voxel |-> <<r.idX, r.idY, r.idZ>>,
             point |-> <<inside[k][0], inside[k][1], inside[k][2]>>] :
              k \in 1..sampleCount}]

\* the body of the for loop over idX, given the in-bounds samples of the voxel
GeneralVoxel(c, r, inside) == GeneralTurn(c, r, inside, GeneralValues(c, inside))

\* the for loop over idX of the segment state machine: it stops after the first
\* voxel whose in-bounds state differs from the segment's
RECURSIVE GeneralFor(_, _)
GeneralFor(c, r) ==
  IF r.idX <= r.idXmax /\ r.isInBounds = r.wasInBounds
  THEN GeneralFor(c, GeneralVoxel(c, r, GeneralInside(c, r.idX, r.idY, r.idZ)))
  ELSE r

\* the end of a segment, f being the state that the for loop stopped in: the
\* pixels of the segment are converted or cleared and its run is inserted
GeneralSegment(c, f) ==
  LET endIdX == f.idX - 1 - (IF f.isInBounds # f.wasInBounds THEN 1 ELSE 0)
      numpixels == endIdX - f.startIdX + 1
      rescaled == IF f.wasInBounds /\ c.rescaleScalars
                  THEN vtkImageResliceRescaleScalars(f.floatPtr, f.idXmax - f.idXmin + 1,
                                                     c.this.ScalarShift, c.this.ScalarScale)
                  ELSE f.floatPtr
      src == f.tmpPtr - (f.idX - f.startIdX)
  IN [f EXCEPT
        !.floatPtr = rescaled,
        !.floats = IF f.wasInBounds
                   THEN f.floats
                        \cup (IF c.rescaleScalars THEN 0..(f.idXmax - f.idXmin) ELSE {})
                        \cup {src + k - 1 : k \in 1..numpixels}
                   ELSE f.floats,
        !.writes = f.writes \o
           (IF f.wasInBounds
            THEN ConvertPixels(c.conversion, f.outPtr, rescaled, src, numpixels)
            ELSE SetPixels(f.outPtr, Background(c.this), numpixels)),
        !.runs = IF f.wasInBounds
                 THEN InsertNextExtent(c.outputStencil, f.runs, f.startIdX, endIdX,
                                       f.idY, f.idZ)
                 ELSE f.runs,
        !.outPtr = f.outPtr + Max2(numpixels, 0),
        !.startIdX = f.startIdX + numpixels,
        !.wasInBounds = f.isInBounds]

\* the while loop of the segment state machine: one segment written per turn
RECURSIVE GeneralWhile(_, _)
GeneralWhile(c, r) ==
  IF r.startIdX <= r.idXmax
  THEN GeneralWhile(c, GeneralSegment(c, GeneralFor(c, r)))
  ELSE r

\* the loop of the nearest-neighbor sub-path over one span
RECURSIVE NearestFor(_, _)
NearestFor(c, r) ==
  IF r.idX <= r.idXmax
  THEN
    LET inPoint == [i \in 0..2 |->
                      c.newmat[i][3] + r.idZ * c.newmat[i][2] + r.idY * c.newmat[i][1]
                      + r.idX * c.newmat[i][0]]
        inIdX == Round(inPoint[0]) - c.inExt[0]
        inIdY == Round(inPoint[1]) - c.inExt[2]
        inIdZ == Round(inPoint[2]) - c.inExt[4]
        inside == /\ inIdX >= 0 /\ inIdX < c.inExt[1] - c.inExt[0] + 1
                  /\ inIdY >= 0 /\ inIdY < c.inExt[3] - c.inExt[2] + 1
                  /\ inIdZ >= 0 /\ inIdZ < c.inExt[5] - c.inExt[4] + 1
        cleared == IF r.isInBounds THEN <<>>
                   ELSE SetPixels(r.outPtr, Background(c.this), r.idX - r.idXmin)
        outPtrTmp == IF r.isInBounds THEN r.outPtrTmp ELSE r.outPtr + Len(cleared)
    IN IF inside
       THEN NearestFor(c, [r EXCEPT
              !.idX = r.idX + 1,
              !.startIdX = IF r.isInBounds THEN r.startIdX ELSE r.idX,
              !.isInBounds = TRUE,
              !.endIdX = r.idX,
              !.outPtr = IF r.isInBounds THEN r.outPtr ELSE r.outPtr + Len(cleared),
              !.outPtrTmp = outPtrTmp + 1,
              !.writes = r.writes \o cleared \o
                 <<[off |-> outPtrTmp,
                    val |-> InputScalar(inIdX + c.inExt[0], inIdY + c.inExt[2],
                                        inIdZ + c.inExt[4]),
                    kind |-> "copy"]>>,
              !.samples = r.samples \cup
                 {[voxel |-> <<r.idX, r.idY, r.idZ>>,
                   point |-> <<inPoint[0], inPoint[1], inPoint[2]>>]}])
       ELSE IF r.isInBounds THEN r
       ELSE NearestFor(c, [r EXCEPT !.idX = r.idX + 1])
  ELSE r

\* the state of the loops over idX at the start of a span
SpanStart(c, st, span) ==
  LET outPtr == IdOf(c.dataExt, span.x0, span.y, span.z)
      idZ == IF span.z > st.idZ THEN span.z ELSE st.idZ
      idY0 == IF span.z > st.idZ THEN c.outExt[2] - 1 ELSE st.idY
      idY == IF span.y > idY0 THEN span.y ELSE idY0
  IN [idXmin |-> span.x0, idXmax |-> span.x1, idY |-> idY, idZ |-> idZ,
      idX |-> span.x0, startIdX |-> span.x0, endIdX |-> span.x0 - 1,
      wasInBounds |-> TRUE, isInBounds |-> TRUE, tmpPtr |-> 0,
      floatPtr |-> st.floatPtr, floats |-> st.floats, outPtr |-> outPtr,
      outPtrTmp |-> outPtr,
      writes |-> st.writes, runs |-> st.runs, samples |-> st.samples]

\* the state of the span loop after a span of the segment state machine, g being
\* the state that the while loop stopped in
GeneralRow(g) ==
  [idY |-> g.idY, idZ |-> g.idZ, floatPtr |-> g.floatPtr, floats |-> g.floats,
   writes |-> g.writes, runs |-> g.runs, samples |-> g.samples]

\* the state of the span loop after a span of the nearest-neighbor sub-path, n
\* being the state that its loop stopped in: the rest of the span is cleared and
\* the run of copied pixels is inserted
NearestRow(c, n) ==
  [idY |-> n.idY, idZ |-> n.idZ, floatPtr |-> n.floatPtr, floats |-> n.floats,
   writes |-> n.writes \o
     SetPixels(n.outPtrTmp, Background(c.this), n.idXmax - n.endIdX),
   runs |-> IF n.endIdX >= n.startIdX
            THEN InsertNextExtent(c.outputStencil, n.runs, n.startIdX, n.endIdX,
                                  n.idY, n.idZ)
            ELSE n.runs,
   samples |-> n.samples]

\* the body of the loop over the iterator's spans in vtkImageResliceExecute
GeneralSpan(c, st, span) ==
  IF ~span.inStencil
  THEN [st EXCEPT !.writes = st.writes \o
          SetPixels(IdOf(c.dataExt, span.x0, span.y, span.z), Background(c.this),
                    span.x1 - span.x0 + 1)]
  ELSE IF ~c.optimizeNearest
  THEN GeneralRow(GeneralWhile(c, SpanStart(c, st, span)))
  ELSE NearestRow(c, NearestFor(c, [SpanStart(c, st, span) EXCEPT !.isInBounds = FALSE]))

\* the loop over the spans lo..hi, in order
RECURSIVE GeneralSpans(_, _, _, _, _)
GeneralSpans(c, spans, lo, hi, st) ==
  IF lo > hi THEN st
  ELSE IF lo = hi THEN GeneralSpan(c, st, spans[lo])
  ELSE LET mid == (lo + hi) \div 2
           first == GeneralSpans(c, spans, lo, mid, st)
       IN Having(first, GeneralSpans(c, spans, mid + 1, hi, first))

\* vtkImageResliceExecute
vtkImageResliceExecute(this, interpolator, inInfo, dataExt, outExt) ==
  LET c == GeneralSetup(this, interpolator, inInfo, dataExt, outExt)
      spans == Spans(this.Stencil, outExt, outExt[2], outExt[4])
  IN Executed(GeneralSpans(c, spans, 1, Len(spans),
                           [idY |-> outExt[2] - 1, idZ |-> outExt[4] - 1,
                            floatPtr |-> <<>> \o [k \in 1..c.floatSize |-> Uninitialized],
                            floats |-> {},
                            writes |-> <<>>, runs |-> <<>>, samples |-> {}]))

---------------------------------------------------------------------------
(* vtkReslicePermuteExecute *)

\* a row compositor whose mean is not scaled by 1/n after the last row
RowCompositeUnscaled(slabMode, vals) ==
  CASE slabMode = VTK_IMAGE_SLAB_MIN ->
         CHOOSE v \in {vals[k] : k \in 1..Len(vals)} : \A k \in 1..Len(vals) : v <= vals[k]
    [] slabMode = VTK_IMAGE_SLAB_MAX ->
         CHOOSE v \in {vals[k] : k \in 1..Len(vals)} : \A k \in 1..Len(vals) : v >= vals[k]
    [] OTHER -> SumSeq(vals)

\* vtkGetRowCompositeFunc and vtkImageResliceRowComp, without trapezoid integration:
\* the content of floatPtr after the last of the rows has been composited
RowComposite(slabMode, vals) ==
  CASE slabMode = VTK_IMAGE_SLAB_MIN ->
         CHOOSE v \in {vals[k] : k \in 1..Len(vals)} : \A k \in 1..Len(vals) : v <= vals[k]
    [] slabMode = VTK_IMAGE_SLAB_MAX ->
         CHOOSE v \in {vals[k] : k \in 1..Len(vals)} : \A k \in 1..Len(vals) : v >= vals[k]
    [] slabMode = VTK_IMAGE_SLAB_SUM -> SumSeq(vals)
    [] OTHER -> SumSeq(vals) \div Len(vals)

\* the matrix that the weights are computed from: shifted along the slab
SlabMatrix(matrix, nsamples) ==
  IF nsamples > 1
  THEN [i \in 0..3 |-> [j \in 0..3 |->
          IF j = 3 /\ i < 3 THEN matrix[i][3] - (matrix[i][2] * nsamples) \div 2
          ELSE matrix[i][j]]]
  ELSE matrix

\* the extent that the weights are computed for: extended along the slab
SlabExtent(outExt, nsamples) ==
  IF nsamples > 1
  THEN [n \in 0..5 |-> IF n = 5 THEN outExt[5] + nsamples - 1 ELSE outExt[n]]
  ELSE outExt

\* the extent that the permute path iterates over
IterExt(clipExt, outExt, nsamples) ==
  LET empty == \E jj \in {0, 2, 4} : clipExt[jj] > clipExt[jj + 1]
      adjust == nsamples - 1
      maxAdjustDown == clipExt[4] - outExt[4]
      maxAdjustUp == outExt[5] - clipExt[5]
  IN [n \in 0..5 |->
        IF empty THEN (IF n % 2 = 0 THEN outExt[n] ELSE outExt[n - 1] - 1)
        ELSE IF nsamples > 1 /\ n = 4
        THEN clipExt[4] - (IF adjust <= maxAdjustDown THEN adjust ELSE maxAdjustDown)
        ELSE IF nsamples > 1 /\ n = 5
        THEN clipExt[5] + (IF adjust <= maxAdjustUp THEN adjust ELSE maxAdjustUp)
        ELSE clipExt[n]]

\* what vtkReslicePermuteExecute computes before its loops
PermuteSetup(this, interpolator, inInfo, dataExt, outExt) ==
  LET nsamples == IF this.SlabNumberOfSlices > 0 THEN this.SlabNumberOfSlices ELSE 1
      newmat == Array4x4(SlabMatrix(this.IndexMatrix.Element, nsamples))
      rescaleScalars == this.ScalarShift # 0 \/ this.ScalarScale # 4
      doConversion ==
        ~(/\ interpolator.InterpolationMode = VTK_NEAREST_INTERPOLATION
          /\ this.HasConvertScalars = 0
          /\ ~rescaleScalars
          /\ nsamples = 1)
      clipExt == Array6(PrecomputeWeightsForExtent(interpolator, inInfo.WholeExtent,
                                                   newmat, SlabExtent(outExt, nsamples)))
      forceClamping ==
        ForceClamping(interpolator.InterpolationMode, nsamples, this.SlabMode)
  IN [this |-> this, interpolator |-> interpolator, inExt |-> inInfo.WholeExtent,
      dataExt |-> dataExt, outExt |-> outExt,
      nsamples |-> nsamples, newmat |-> newmat, doConversion |-> doConversion,
      rescaleScalars |-> rescaleScalars,
      clipExt |-> clipExt, iterExt |-> Array6(IterExt(clipExt, outExt, nsamples)),
      empty |-> \E jj \in {0, 2, 4} : clipExt[jj] > clipExt[jj + 1],
      outputStencil |-> this.GenerateStencilOutput = 1,
      conversion |-> ConversionFor(this, forceClamping),
      inc |-> ContinuousIncrements(dataExt, outExt),
      fullspan |-> outExt[1] - outExt[0] + 1,
      floatSize |-> IF doConversion THEN outExt[1] - outExt[0] + 1 ELSE 0]

\* writes at outPtr, which setpixels and the conversions advance
Put(st, events) ==
  [st EXCEPT !.writes = st.writes \o events, !.outPtr = st.outPtr + Len(events)]

\* outPtr stepped by an increment
Advance(st, inc) == [st EXCEPT !.outPtr = st.outPtr + inc]

\* n full rows cleared, outPtr stepping to the next row of the tile after each
RECURSIVE ClearRows(_, _, _)
ClearRows(c, st, n) ==
  IF n <= 0 THEN st
  ELSE ClearRows(c, Advance(Put(st, SetPixels(st.outPtr, Background(c.this), c.fullspan)),
                            c.inc.outIncY),
                 n - 1)

\* n full slices cleared, outPtr stepping to the next slice of the tile after each
RECURSIVE ClearSlices(_, _, _)
ClearSlices(c, st, n) ==
  IF n <= 0 THEN st
  ELSE ClearSlices(c, Advance(ClearRows(c, st, c.outExt[3] - c.outExt[2] + 1),
                              c.inc.outIncZ),
                   n - 1)

\* the rows of the input that a span of the permute path interpolates
PermuteRows(c, idZ) ==
  LET lowerSkip == Max2(c.clipExt[4] - idZ, 0)
      upperSkip == Max2(idZ + (c.nsamples - 1) - c.clipExt[5], 0)
  IN [idZ1 |-> idZ + lowerSkip, nsamples1 |-> c.nsamples - lowerSkip - upperSkip]

\* floatPtr after the slab rows of a span have been interpolated and composited
PermuteFloats(c, st, span) ==
  LET rows == PermuteRows(c, span.z)
      n1 == Max2(rows.nsamples1, 0)
      len == span.x1 - span.x0 + 1
      vals(x) == <<>> \o [k \in 1..n1 |->
                            InterpolateRow(c.interpolator, c.inExt, c.newmat, x, span.y,
                                           rows.idZ1 + k - 1)]
  IN IF n1 = 0 THEN st.floatPtr
     ELSE [k \in 1..len |->
             IF n1 > 1
             THEN RowComposite(c.this.SlabMode, vals(span.x0 + k - 1))
             ELSE vals(span.x0 + k - 1)[1]]
          \o SubSeq(st.floatPtr, len + 1, Len(st.floatPtr))

\* the conversion of the floats of a span into the output
PermuteConvert(c, st, span, floatPtr) ==
  Put([st EXCEPT !.floatPtr = floatPtr],
      ConvertPixels(c.conversion, st.outPtr, floatPtr, 0, span.x1 - span.x0 + 1))

\* a span interpolated straight into the output, without conversion
PermuteCopy(c, st, span) ==
  Put(st, [k \in 1..(span.x1 - span.x0 + 1) |->
             [off |-> st.outPtr + k - 1,
              val |-> vtkInterpolateRound(
                        InterpolateRow(c.interpolator, c.inExt, c.newmat,
                                       span.x0 + k - 1, span.y, span.z)),
              kind |-> "copy"]])

\* the input points that a span interpolates
PermuteSamples(c, span) ==
  LET rows == PermuteRows(c, span.z)
      n1 == Max2(rows.nsamples1, 0)
  IN IF c.doConversion
     THEN {[voxel |-> <<x, span.y, span.z>>,
            point |-> LET q == PermutePoint(c.newmat, x, span.y, rows.idZ1 + k - 1)
                      IN <<q[0], q[1], q[2]>>] :
             x \in span.x0..span.x1, k \in 1..n1}
     ELSE {[voxel |-> <<x, span.y, span.z>>,
            point |-> LET q == PermutePoint(c.newmat, x, span.y, span.z)
                      IN <<q[0], q[1], q[2]>>] : x \in span.x0..span.x1}

\* the in-stencil part of the loop body: interpolation, compositing, conversion
PermuteInterpolate(c, st, span) ==
  [(IF c.doConversion
    THEN PermuteConvert(c, st, span,
           IF c.rescaleScalars
           THEN vtkImageResliceRescaleScalars(PermuteFloats(c, st, span),
                                              span.x1 - span.x0 + 1,
                                              c.this.ScalarShift, c.this.ScalarScale)
           ELSE PermuteFloats(c, st, span))
    ELSE PermuteCopy(c, st, span))
   EXCEPT
     !.samples = st.samples \cup PermuteSamples(c, span),
     !.runs = InsertNextExtent(c.outputStencil, st.runs, span.x0, span.x1,
                               span.y, span.z)]

\* at the first span of the first row of a slice of iterExt: the rows of the
\* tile before iterExt are cleared
RowsBefore(c, st, span) ==
  IF span.x0 = c.iterExt[0] /\ span.y = c.iterExt[2]
  THEN ClearRows(c, st, c.iterExt[2] - c.outExt[2])
  ELSE st

\* at the first span of a row: the pixels of the row before iterExt are cleared
Leading(c, st, span) ==
  IF span.x0 = c.iterExt[0] /\ c.iterExt[0] > c.outExt[0]
  THEN Put(st, SetPixels(st.outPtr, Background(c.this), c.iterExt[0] - c.outExt[0]))
  ELSE st

\* the span itself: cleared outside the stencil, interpolated inside
SpanBody(c, st, span) ==
  IF ~span.inStencil
  THEN Put(st, SetPixels(st.outPtr, Background(c.this), span.x1 - span.x0 + 1))
  ELSE PermuteInterpolate(c, st, span)

\* at the last span of a row: the pixels of the row after iterExt are cleared
Trailing(c, st) ==
  IF c.iterExt[1] < c.outExt[1]
  THEN Put(st, SetPixels(st.outPtr, Background(c.this), c.outExt[1] - c.iterExt[1]))
  ELSE st

\* after the last row of a slice of iterExt: the rows of the tile after iterExt
\* are cleared and outPtr steps to the next slice
RowsAfter(c, st, span) ==
  IF span.y # c.iterExt[3] THEN st
  ELSE Advance(ClearRows(c, st, c.outExt[3] - c.iterExt[3]), c.inc.outIncZ)

\* after the last span of a row: outPtr steps to the next row
RowEnd(c, st, span) ==
  IF span.x1 # c.iterExt[1] THEN st
  ELSE RowsAfter(c, Advance(Trailing(c, st), c.inc.outIncY), span)

\* the body of the loop over the iterator's spans in vtkReslicePermuteExecute
PermuteSpan(c, st, span) ==
  RowEnd(c, SpanBody(c, Leading(c, RowsBefore(c, st, span), span), span), span)

\* the loop over the spans lo..hi, in order
RECURSIVE PermuteSpans(_, _, _, _, _)
PermuteSpans(c, spans, lo, hi, st) ==
  IF lo > hi THEN st
  ELSE IF lo = hi THEN PermuteSpan(c, st, spans[lo])
  ELSE LET mid == (lo + hi) \div 2
           first == PermuteSpans(c, spans, lo, mid, st)
       IN Having(first, PermuteSpans(c, spans, mid + 1, hi, first))

\* the loop over the spans of iterExt, which is skipped when iterExt is empty
PermutePaint(c, spans, st) ==
  IF c.empty THEN st ELSE PermuteSpans(c, spans, 1, Len(spans), st)

\* the loops of vtkReslicePermuteExecute: the slices before iterExt are cleared,
\* the spans of iterExt are done, the slices after iterExt are cleared
PermuteLoops(c) ==
  Executed(
    ClearSlices(c,
      PermutePaint(c, Spans(c.this.Stencil, c.iterExt, c.iterExt[2], c.iterExt[4]),
        ClearSlices(c,
          [outPtr |-> IdOf(c.dataExt, c.outExt[0], c.outExt[2], c.outExt[4]),
           floatPtr |-> <<>> \o [k \in 1..c.floatSize |-> Uninitialized],
           floats |-> {},
           writes |-> <<>>, runs |-> <<>>, samples |-> {}],
          c.iterExt[4] - c.outExt[4])),
      c.outExt[5] - c.iterExt[5]))

\* vtkReslicePermuteExecute
vtkReslicePermuteExecute(this, interpolator, inInfo, dataExt, outExt) ==
  PermuteLoops(PermuteSetup(this, interpolator, inInfo, dataExt, outExt))

---------------------------------------------------------------------------
(* RequestData and ThreadedRequestData *)

\* an output scalar that no tile has written
Unwritten == 0 - 1

\* vtkThreadedImageAlgorithm: the axes it may split, the first SplitPathLength
\* entries of its split path
SplitPath == <<2, 1, 0>>

SplitAxes(this) == {SplitPath[k] : k \in 1..this.SplitPathLength}

\* vtkThreadedImageAlgorithm::SplitExtent: the two pieces of an extent cut in the
\* middle of an axis
SplitExtent(ext, axis) ==
  LET mid == (ext[2 * axis] + ext[2 * axis + 1]) \div 2
  IN {[ext EXCEPT ![2 * axis + 1] = mid], [ext EXCEPT ![2 * axis] = mid + 1]}

\* the ways the superclass may cut the output extent into tiles
Decompositions(this, ext) ==
  {{ext}} \cup {SplitExtent(ext, a) :
                  a \in {b \in SplitAxes(this) : ext[2 * b] < ext[2 * b + 1]}}

\* a RequestData that gives the x-axis back to the splitter when no stencil
\* output is generated
RequestDataRestoring ==
  /\ phase = "extent"
  /\ LET deny == self.GenerateStencilOutput = 1 /\ self.SplitPathLength = 3
     IN /\ warnings' = IF deny /\ self.SplitMode = BLOCK THEN 1 ELSE 0
        /\ self' = IF deny THEN [self EXCEPT !.SplitPathLength = 2]
                   ELSE IF self.GenerateStencilOutput = 0
                   THEN [self EXCEPT !.SplitPathLength = 3]
                   ELSE self
  /\ pending' \in Decompositions(self', outInfo.WholeExtent)
  /\ outData' = [Extent |-> outInfo.WholeExtent,
                 Scalars |-> [off \in 0..(Cardinality(VoxelsOf(outInfo.WholeExtent)) - 1)
                                |-> Unwritten]]
  /\ stencilOutput' = <<>>
  /\ last' = NoTile
  /\ phase' = "data"
  /\ UNCHANGED <<input, outInfo, inUpdateExt, stencilUpdateExt, interp, calls, passesLeft, mtimes>>

\* vtkImageReslice::RequestData up to the point where the threads start
RequestData ==
  /\ phase = "extent"
  /\ LET deny == self.GenerateStencilOutput = 1 /\ self.SplitPathLength = 3
     IN /\ warnings' = IF deny /\ self.SplitMode = BLOCK THEN 1 ELSE 0
        /\ self' = IF deny THEN [self EXCEPT !.SplitPathLength = 2] ELSE self
  /\ pending' \in Decompositions(self', outInfo.WholeExtent)
  /\ outData' = [Extent |-> outInfo.WholeExtent,
                 Scalars |-> [off \in 0..(Cardinality(VoxelsOf(outInfo.WholeExtent)) - 1)
                                |-> Unwritten]]
  /\ stencilOutput' = <<>>
  /\ last' = NoTile
  /\ phase' = "data"
  /\ UNCHANGED <<input, outInfo, inUpdateExt, stencilUpdateExt, interp, calls, passesLeft, mtimes>>

\* the writes of an execution, the conversions of uninitialised floats resolved
Resolve(writes, garbage) ==
  <<>> \o [n \in 1..Len(writes) |->
            IF writes[n].val = Uninitialized THEN [writes[n] EXCEPT !.val = garbage]
            ELSE writes[n]]

\* the output scalars after a sequence of writes: the latest write to an offset
\* stays
ApplyWrites(scalars, writes) ==
  [off \in DOMAIN scalars |->
     LET at == {n \in 1..Len(writes) : writes[n].off = off}
     IN IF at = {} THEN scalars[off]
        ELSE writes[CHOOSE n \in at : \A m \in at : m <= n].val]

\* a dispatch that clears the tiles that hit the input extent
ExecutePathCleared(this, inInfo) ==
  LET inExt == inInfo.WholeExtent
  IN IF inExt[1] < inExt[0] \/ inExt[3] < inExt[2] \/ inExt[5] < inExt[4] THEN "return"
     ELSE IF this.HitInputExtent = 1 THEN "clear"
     ELSE IF this.UsePermuteExecute = 1 THEN "permute"
     ELSE "general"

\* the dispatch of vtkImageReslice::ThreadedRequestData
ExecutePath(this, inInfo) ==
  LET inExt == inInfo.WholeExtent
  IN IF inExt[1] < inExt[0] \/ inExt[3] < inExt[2] \/ inExt[5] < inExt[4] THEN "return"
     ELSE IF this.HitInputExtent = 0 THEN "clear"
     ELSE IF this.UsePermuteExecute = 1 THEN "permute"
     ELSE "general"

\* vtkGetSetPixelsFunc and vtkGetConversionFunc: the function selected for a
\* scalar type, nullptr when the switch has no case for it
vtkGetSetPixelsFunc(dataType) ==
  IF dataType \in DispatchedTypes THEN [name |-> "Set1"] ELSE NULL

\* a call made through a function pointer: when the pointer is null the
\* behaviour is undefined, and what ends up in the output is open
Call(func, events) ==
  <<>> \o [n \in 1..Len(events) |->
            IF func = NULL THEN [events[n] EXCEPT !.val = Uninitialized, !.kind = "null"]
            ELSE events[n]]

\* what the executors can do with the functions selected for a scalar type:
\* with a null function, the thread either goes on after each call or stops at
\* the first one
Outcomes(done, dataType) ==
  IF vtkGetSetPixelsFunc(dataType) # NULL THEN {done}
  ELSE {[done EXCEPT !.writes = Call(NULL, done.writes)],
        [done EXCEPT !.writes = Call(NULL, SubSeq(done.writes, 1, 1)), !.runs = <<>>]}

\* what the executor of a path does on a tile
Execute(path, this, interpolator, inInfo, dataExt, outExt) ==
  CASE path = "clear" -> vtkImageResliceClearExecute(this, dataExt, outExt)
    [] path = "permute" ->
         vtkReslicePermuteExecute(this, interpolator, inInfo, dataExt, outExt)
    [] path = "general" ->
         vtkImageResliceExecute(this, interpolator, inInfo, dataExt, outExt)
    [] OTHER -> NoExecution

\* a tile execution that recomputes HitInputExtent for its own tile
ThreadedRequestDataRebuilding ==
  /\ phase = "data"
  /\ \E outExt \in pending :
     \E path \in {ExecutePath(self, input)} :
     \E run \in {Execute(path, self, interp, input, outData.Extent, outExt)} :
     \E done \in Outcomes(run, input.ScalarType) :
     \E garbage \in GarbageChoices :
     \E writes \in {Resolve(done.writes, garbage)} :
       /\ outData' = [outData EXCEPT !.Scalars = ApplyWrites(@, writes)]
       /\ stencilOutput' = stencilOutput \o done.runs
       /\ last' = [path |-> path, outExt |-> outExt, writes |-> writes,
                   runs |-> done.runs, samples |-> done.samples,
                   floats |-> done.floats]
       /\ pending' = pending \ {outExt}
       /\ self' = [self EXCEPT !.HitInputExtent = IF done.samples = {} THEN 0 ELSE 1]
  /\ UNCHANGED <<input, outInfo, inUpdateExt, stencilUpdateExt, interp, phase, warnings, calls,
                 passesLeft, mtimes>>

\* vtkImageReslice::ThreadedRequestData on one tile, by any thread
ThreadedRequestData ==
  /\ phase = "data"
  /\ \E outExt \in pending :
     \E path \in {ExecutePath(self, input)} :
     \E run \in {Execute(path, self, interp, input, outData.Extent, outExt)} :
     \E done \in Outcomes(run, input.ScalarType) :
     \E garbage \in GarbageChoices :
     \E writes \in {Resolve(done.writes, garbage)} :
       /\ outData' = [outData EXCEPT !.Scalars = ApplyWrites(@, writes)]
       /\ stencilOutput' = stencilOutput \o done.runs
       /\ last' = [path |-> path, outExt |-> outExt, writes |-> writes,
                   runs |-> done.runs, samples |-> done.samples,
                   floats |-> done.floats]
       /\ pending' = pending \ {outExt}
  /\ UNCHANGED <<self, input, outInfo, inUpdateExt, stencilUpdateExt, interp, phase, warnings, calls,
                 passesLeft, mtimes>>

\* vtkImageReslice::RequestData returns once every tile has been executed
RequestDataReturn ==
  /\ phase = "data"
  /\ pending = {}
  /\ phase' = "idle"
  /\ last' = NoTile
  /\ UNCHANGED <<self, input, outInfo, inUpdateExt, stencilUpdateExt, interp, pending, outData,
                 stencilOutput, warnings, calls, passesLeft, mtimes>>

---------------------------------------------------------------------------
(* The specifications *)

Next ==
  \/ SetInputData
  \/ SetResliceAxes
  \/ SetResliceTransform
  \/ SetOutputOrigin
  \/ SetOutputExtent
  \/ SetBorder
  \/ SetBorderThickness
  \/ SetInterpolationMode
  \/ SetSlabNumberOfSlices
  \/ SetBackgroundColor
  \/ SetStencilData
  \/ SetGenerateStencilOutput
  \/ SetOptimization
  \/ SetWrap
  \/ SetMirror
  \/ RequestInformation
  \/ RequestUpdateExtent
  \/ RequestData
  \/ ThreadedRequestData
  \/ RequestDataReturn

Spec == Init /\ [][Next]_vars

\* the filter used with slabs and stencils: more setter calls, fewer setters
NextStencil ==
  \/ SetOutputOrigin
  \/ SetSlabNumberOfSlices
  \/ SetStencilData
  \/ SetGenerateStencilOutput
  \/ RequestInformation
  \/ RequestUpdateExtent
  \/ RequestData
  \/ ThreadedRequestData
  \/ RequestDataReturn

SpecStencil == InitStencil /\ [][NextStencil]_vars

\* the filter re-executed: several passes with the split mode and the stencil
\* output changed in between
NextDriver ==
  \/ SetGenerateStencilOutput
  \/ SetSplitMode
  \/ RequestInformation
  \/ RequestUpdateExtent
  \/ RequestData
  \/ ThreadedRequestData
  \/ RequestDataReturn

SpecDriver == InitDriver /\ [][NextDriver]_vars

\* the objects held by the filter set and modified in place, between passes
\* that stop after the update extent
NextMTime ==
  \/ SetResliceAxes
  \/ SetResliceTransform
  \/ SetInformationInput
  \/ SetInterpolator
  \/ TouchResliceTransform
  \/ TouchTransformMatrix
  \/ TouchResliceAxes
  \/ TouchInterpolator
  \/ TouchInformationInput
  \/ RequestInformation
  \/ RequestUpdateExtent
  \/ UpdateExtentReturn

SpecMTime == InitMTime /\ [][NextMTime]_vars

\* the information and the update extent requested, pass after pass, with the
\* geometry, the kernel and the border mode changed in between
NextExtent ==
  \/ SetInputData
  \/ SetResliceAxes
  \/ SetResliceTransform
  \/ SetOutputOrigin
  \/ SetOutputExtent
  \/ SetOutputDimensionality
  \/ SetAutoCropOutput
  \/ SetInterpolationMode
  \/ SetInterpolator
  \/ SetSlabNumberOfSlices
  \/ SetWrap
  \/ SetMirror
  \/ RequestInformation
  \/ RequestUpdateExtent
  \/ UpdateExtentReturn

SpecExtent == InitExtent /\ [][NextExtent]_vars

\* the filter given an image whose scalar type the type dispatch has no case for
NextTypes ==
  \/ SetInputDataBit
  \/ SetOutputOrigin
  \/ SetInterpolationMode
  \/ SetOptimization
  \/ SetBackgroundColor
  \/ RequestInformation
  \/ RequestUpdateExtent
  \/ RequestData
  \/ ThreadedRequestData
  \/ RequestDataReturn

SpecTypes == Init /\ [][NextTypes]_vars

\* the selection of the conversion function, on its own: the scalar types, the
\* shift and scale, the interpolation mode and the slab are drawn here, and
\* GetConversion is the selection an executor makes for them
ShiftChoices == {0, 4, -512}
ScaleChoices == {4, 2, -4}
ConversionInputs ==
  [path : {"conversion"},
   inputType : IntegerTypes,
   dataType : IntegerTypes \cup {"float", "bit"},
   scalarShift : ShiftChoices,
   scalarScale : ScaleChoices,
   interpolationMode : {VTK_RESLICE_NEAREST, VTK_RESLICE_LINEAR, VTK_RESLICE_CUBIC},
   nsamples : {1, 2},
   slabMode : {VTK_IMAGE_SLAB_MEAN, VTK_IMAGE_SLAB_SUM},
   selected : {FALSE},
   conversion : {NULL}]

InitConversion ==
  /\ self = Constructor
  /\ input = FullInput
  /\ outInfo = NULL
  /\ inUpdateExt = Ext6(0, -1, 0, -1, 0, -1)
  /\ stencilUpdateExt = Ext6(0, -1, 0, -1, 0, -1)
  /\ interp = NULL
  /\ phase = "idle"
  /\ pending = {}
  /\ outData = NULL
  /\ stencilOutput = <<>>
  /\ warnings = 0
  /\ mtimes = NewTimes
  /\ calls = 0
  /\ passesLeft = 0
  /\ last \in ConversionInputs

GetConversion ==
  /\ last.path = "conversion" /\ ~last.selected
  /\ last' = [last EXCEPT
       !.selected = TRUE,
       !.conversion =
         vtkGetConversionFunc(last.inputType, last.dataType, last.scalarShift,
                                 last.scalarScale,
                                 ForceClamping(last.interpolationMode, last.nsamples,
                                               last.slabMode))]
  /\ UNCHANGED <<self, input, outInfo, inUpdateExt, stencilUpdateExt, interp, phase, pending, outData,
                 stencilOutput, warnings, calls, passesLeft, mtimes>>

NextConversion == GetConversion

SpecConversion == InitConversion /\ [][NextConversion]_vars

\* the filter after OptimizationOff(), every tile taking the general path
InitFloatRow ==
  /\ self = [Constructor EXCEPT !.Optimization = 0]
  /\ input = FullInput
  /\ outInfo = NULL
  /\ inUpdateExt = Ext6(0, -1, 0, -1, 0, -1)
  /\ stencilUpdateExt = Ext6(0, -1, 0, -1, 0, -1)
  /\ interp = NULL
  /\ phase = "idle"
  /\ pending = {}
  /\ outData = NULL
  /\ stencilOutput = <<>>
  /\ last = NoTile
  /\ warnings = 0
  /\ mtimes = Modified(NewTimes, "Filter")
  /\ calls = MaxFloatRowCalls
  /\ passesLeft = 1

NextFloatRow ==
  \/ SetScalarShift
  \/ SetSlabNumberOfSlices
  \/ SetOutputOrigin
  \/ SetResliceTransform
  \/ SetInterpolationMode
  \/ SetStencilData
  \/ RequestInformation
  \/ RequestUpdateExtent
  \/ RequestData
  \/ ThreadedRequestData
  \/ RequestDataReturn

SpecFloatRow == InitFloatRow /\ [][NextFloatRow]_vars

\* the update-extent pass of a filter with a stencil input
NextStencilExtent ==
  \/ SetStencilData
  \/ SetResliceAxes
  \/ SetResliceTransform
  \/ SetOutputOrigin
  \/ SetSlabNumberOfSlices
  \/ RequestInformation
  \/ RequestUpdateExtent
  \/ UpdateExtentReturn

SpecStencilExtent == InitExtent /\ [][NextStencilExtent]_vars

\* the information and update-extent passes on a filter whose reslice axes are
\* any of the matrices of MatrixChoices
NextMatrix ==
  \/ RequestInformation
  \/ RequestUpdateExtent
  \/ UpdateExtentReturn

SpecMatrix == InitMatrix /\ [][NextMatrix]_vars

\* the output geometry, the axes, the interpolation mode and the optimization
\* changed between passes that stop after the update extent
NextNearest ==
  \/ SetResliceAxes
  \/ SetOutputSpacing
  \/ SetOutputOrigin
  \/ SetOutputExtent
  \/ SetOutputDimensionality
  \/ SetInterpolationMode
  \/ SetOptimization
  \/ RequestInformation
  \/ RequestUpdateExtent
  \/ UpdateExtentReturn

SpecNearest == InitNearest /\ [][NextNearest]_vars

\* the setters of the output geometry, called on a filter that is not executing;
\* the origin and the extent are also set to the values of the constructor
NextSetters ==
  \/ SetOutputSpacing
  \/ SetOutputSpacingToDefault
  \/ SetOutputDirection
  \/ SetOutputDirectionToDefault
  \/ SetOutputOrigin
  \/ SetOutputOriginTo(Constructor.OutputOrigin)
  \/ SetOutputOriginToDefault
  \/ SetOutputExtent
  \/ SetOutputExtentTo(Constructor.OutputExtent)
  \/ SetOutputExtentToDefault

SpecSetters == InitSetters /\ [][NextSetters]_vars

---------------------------------------------------------------------------
(* Properties *)

\* a tile has just been handed to ThreadedRequestData
TileEntered == phase = "data" /\ last.path # "none"

\* a tile has just been executed by one of the three executors
TileExecuted == phase = "data" /\ last.path \in {"clear", "general", "permute"}

\* the output scalar at a voxel, given as <<x, y, z>>
PixelAt(v) == outData.Scalars[IdOf(outData.Extent, v[1], v[2], v[3])]

\* the background color in the unsigned char output type
BackgroundPixel ==
  IF self.BackgroundColor < 0 THEN 0
  ELSE IF self.BackgroundColor > 255 THEN 255
  ELSE self.BackgroundColor

\* the writes of the latest tile execution that land on a voxel
WritesAt(v) ==
  {n \in 1..Len(last.writes) :
     last.writes[n].off = IdOf(outData.Extent, v[1], v[2], v[3])}

\* C1: whenever ThreadedRequestData is given a tile while HitInputExtent is 0,
\* every voxel of the tile ends equal to the background color in the output
\* type, no input voxel is sampled and no run is inserted into the output
\* stencil, whatever UsePermuteExecute is.
C1_ClearWhenMissed ==
  (TileEntered /\ self.HitInputExtent = 0) =>
    /\ \A v \in VoxelsOf(last.outExt) : PixelAt(v) = BackgroundPixel
    /\ last.samples = {}
    /\ last.runs = <<>>

\* C2: in the general path (the nearest-neighbor sub-path included) and in the
\* permute path, with or without an input stencil, every voxel of the tile is
\* written exactly once, by a conversion, a copy or a background fill, and no
\* write lands outside the tile.
C2_WrittenExactlyOnce ==
  (phase = "data" /\ last.path \in {"general", "permute"}) =>
    /\ \A v \in VoxelsOf(last.outExt) : Cardinality(WritesAt(v)) = 1
    /\ \A n \in 1..Len(last.writes) :
         /\ last.writes[n].kind \in {"convert", "copy", "fill"}
         /\ \E v \in VoxelsOf(last.outExt) : n \in WritesAt(v)

\* C2 witness: a tile of the general path under an input stencil, whose rows
\* alternate conversions and background fills
C2_Witness ==
  /\ phase = "data" /\ last.path = "general" /\ self.Stencil # NULL
  /\ \E n \in 1..Len(last.writes) : last.writes[n].kind = "convert"
  /\ \E n \in 1..Len(last.writes) : last.writes[n].kind = "fill"
  /\ Len(last.writes) = Cardinality(VoxelsOf(last.outExt))

\* the border tolerance that the filter is configured with, in quarters
ConfiguredTolerance ==
  IF self.Wrap = 1 \/ self.Mirror = 1 THEN maxtol
  ELSE IF self.Border = 1 THEN self.BorderThickness
  ELSE 0

\* an input index lies outside the input extent by more than the tolerance
OutsideBy(p, tolerance) ==
  \E i \in 0..2 :
    \/ p[i] < 4 * input.WholeExtent[2 * i] - tolerance
    \/ p[i] > 4 * input.WholeExtent[2 * i + 1] + tolerance

\* an input index rounds to a voxel outside the input extent
RoundsOutside(p) ==
  \E i \in 0..2 :
    \/ Round(p[i]) < input.WholeExtent[2 * i]
    \/ Round(p[i]) > input.WholeExtent[2 * i + 1]

\* the latest tile went through the nearest-neighbor sub-path of the general path
NearestSubPath ==
  /\ last.path = "general"
  /\ GeneralSetup(self, interp, input, outData.Extent, last.outExt).optimizeNearest

\* the input indices of the slab samples of voxel v in the latest tile's path
SlabPoints(v) ==
  IF last.path = "permute"
  THEN LET ns == IF self.SlabNumberOfSlices > 0 THEN self.SlabNumberOfSlices ELSE 1
           newmat == SlabMatrix(self.IndexMatrix.Element, ns)
       IN {PermutePoint(newmat, v[1], v[2], v[3] + k) : k \in 0..(ns - 1)}
  ELSE LET c == GeneralSetup(self, interp, input, outData.Extent, last.outExt)
       IN {GeneralPoint(c, v[1], v[2], v[3], k) : k \in 0..(c.nsamples - 1)}

\* C3: a voxel all of whose slab sample points lie outside the input extent by
\* more than the configured border tolerance is written with the background
\* color, for every BorderThickness and in every path, the nearest-neighbor
\* sub-path included.
C3_BackgroundFidelity ==
  (phase = "data" /\ last.path \in {"general", "permute"}
   /\ self.Wrap = 0 /\ self.Mirror = 0) =>
    \A v \in VoxelsOf(last.outExt) :
      (\A p \in SlabPoints(v) : OutsideBy(p, ConfiguredTolerance))
        => PixelAt(v) = BackgroundPixel

\* the voxels covered by the runs that the latest tile gave to InsertNextExtent
RunVoxels ==
  UNION {{<<x, last.runs[n][3], last.runs[n][4]>> :
            x \in last.runs[n][1]..last.runs[n][2]} : n \in 1..Len(last.runs)}

\* a slab sample is in bounds: by rounding in the nearest-neighbor sub-path, by
\* the border tolerance elsewhere
SampleInBounds(p) ==
  IF NearestSubPath THEN ~RoundsOutside(p) ELSE ~OutsideBy(p, ConfiguredTolerance)

\* C4: with GenerateStencilOutput on and no input stencil, the voxels covered by
\* the runs inserted by a tile are exactly the voxels of the tile with at least
\* one slab sample in bounds, in every path and for every slab count.
C4_StencilOutputExact ==
  (phase = "data" /\ last.path \in {"general", "permute"}
   /\ self.GenerateStencilOutput = 1 /\ self.Stencil = NULL) =>
    RunVoxels =
      {v \in VoxelsOf(last.outExt) : \E p \in SlabPoints(v) : SampleInBounds(p)}

\* the output scalars after an execution, for one outcome of the conversions of
\* uninitialised floats
ImageOf(done, garbage) == ApplyWrites(outData.Scalars, Resolve(done.writes, garbage))

\* the latest tile executed again by the same executor without the input stencil
Unmasked ==
  Execute(last.path, [self EXCEPT !.Stencil = NULL], interp, input, outData.Extent,
          last.outExt)

\* C5: under an input stencil, the output of a tile equals the output of the
\* same tile computed without the stencil at every voxel inside the stencil, and
\* the background color at every voxel outside it, in both paths.
C5_StencilMask ==
  (phase = "data" /\ last.path \in {"general", "permute"} /\ self.Stencil # NULL) =>
    \E garbage \in GarbageChoices :
      LET unmasked == ImageOf(Unmasked, garbage)
      IN \A v \in VoxelsOf(last.outExt) :
           IF InStencil(self.Stencil, v[1], v[2], v[3])
           THEN PixelAt(v) = unmasked[IdOf(outData.Extent, v[1], v[2], v[3])]
           ELSE PixelAt(v) = BackgroundPixel

\* the latest tile executed by the general path: the same filter with
\* Optimization off
ByGeneralPath ==
  LET off == RequestInformationBase([self EXCEPT !.Optimization = 0], interp, input,
                                    outInfo)
  IN Execute("general", [off.self EXCEPT !.HitInputExtent = self.HitInputExtent],
             off.interp, input, outData.Extent, last.outExt)

\* C6: when the permute path is eligible, the general path and the permute path
\* write the same value to every voxel of the tile and sample the same input
\* positions for every voxel, for every slab count.
C6_PathEquivalence ==
  (phase = "data" /\ last.path = "permute") =>
    /\ \E garbage \in GarbageChoices : outData.Scalars = ImageOf(ByGeneralPath, garbage)
    /\ last.samples = ByGeneralPath.samples

\* no reslice axes, no reslice transform, and the output spacing, origin and
\* extent equal to the input's (the direction matrices are identity)
IdentityGeometry ==
  /\ self.ResliceAxes = NULL
  /\ self.ResliceTransform = NULL
  /\ outInfo.WholeExtent = input.WholeExtent
  /\ outInfo.Spacing = input.Spacing
  /\ outInfo.Origin = input.Origin

\* the index matrix is the identity and every voxel of the tile holds the input
\* voxel of the same index
IdentityCopy ==
  /\ self.IndexMatrix.Element = Identity4
  /\ \A v \in VoxelsOf(last.outExt) : PixelAt(v) = InputScalar(v[1], v[2], v[3])

VoxelsOfRuns(runs) ==
  UNION {{<<x, runs[n][3], runs[n][4]>> : x \in runs[n][1]..runs[n][2]} :
           n \in 1..Len(runs)}

\* the whole output extent executed as a single tile
SingleTile ==
  Execute(ExecutePath(self, input), self, interp, input, outData.Extent,
          outData.Extent)

\* C8: once every tile of a decomposition has been executed, in any order, the
\* output image and the set of stencil voxels are those of the whole extent
\* executed as a single tile.
C8_ThreadIndependence ==
  (phase = "data" /\ pending = {} /\ last.path \in {"clear", "general", "permute"}) =>
    /\ \E garbage \in GarbageChoices :
         outData.Scalars =
           ApplyWrites([off \in DOMAIN outData.Scalars |-> Unwritten],
                       Resolve(SingleTile.writes, garbage))
    /\ VoxelsOfRuns(stencilOutput) = VoxelsOfRuns(SingleTile.runs)

\* C9: in every pass whose tiles are executed with GenerateStencilOutput on,
\* RequestData has brought SplitPathLength to at most 2 before the tiles are
\* cut, and has emitted a warning for the pass when the split mode is BLOCK.
C9_NoSplitAlongX ==
  (phase = "data" /\ self.GenerateStencilOutput = 1) =>
    /\ self.SplitPathLength <= 2
    /\ self.SplitMode = BLOCK => warnings = 1

\* C10: within one tile execution, the runs given to InsertNextExtent for one
\* row are pairwise disjoint and in strictly ascending X order, and each run
\* carries the Y and Z of the row whose voxels it covers: the voxels of a run
\* are voxels of the tile that the execution wrote by a conversion or a copy.
C10_RunsAscending ==
  (phase = "data" /\ last.path \in {"general", "permute"}) =>
    /\ \A n \in 1..Len(last.runs) : \A m \in 1..Len(last.runs) :
         (n < m /\ last.runs[n][3] = last.runs[m][3]
          /\ last.runs[n][4] = last.runs[m][4])
           => last.runs[n][2] < last.runs[m][1]
    /\ \A n \in 1..Len(last.runs) :
         /\ last.runs[n][1] <= last.runs[n][2]
         /\ \A x \in last.runs[n][1]..last.runs[n][2] :
              LET v == <<x, last.runs[n][3], last.runs[n][4]>>
              IN /\ v \in VoxelsOf(last.outExt)
                 /\ \A k \in WritesAt(v) : last.writes[k].kind \in {"convert", "copy"}

\* C10 witness: a tile that inserted two runs for the same row
C10_Witness ==
  /\ phase = "data" /\ last.path \in {"general", "permute"}
  /\ \E n \in 1..Len(last.runs) : \E m \in 1..Len(last.runs) :
       /\ n < m
       /\ last.runs[n][3] = last.runs[m][3]
       /\ last.runs[n][4] = last.runs[m][4]

---------------------------------------------------------------------------
(* The state shared by the tiles of a pass *)

\* what the tiles of a pass share: the index matrix, the residual transform, the
\* two dispatch flags and the configuration of the interpolator
SharedByTiles ==
  <<self.IndexMatrix, self.OptimizedTransform, self.HitInputExtent,
    self.UsePermuteExecute, interp>>

\* C11: no tile execution modifies IndexMatrix, OptimizedTransform,
\* HitInputExtent, UsePermuteExecute or the interpolator configuration: they
\* change only in the steps of RequestInformation, RequestUpdateExtent and
\* RequestData, which leave the phases "idle", "info" and "extent" before any
\* tile of the pass is executed.
C11_SharedReadOnly ==
  [][(SharedByTiles' # SharedByTiles) =>
       (phase \in {"idle", "info", "extent"} /\ phase' # phase)]_vars

\* C11 witness: a pass cut in two tiles, both executed by one of the executors
C11_Witness ==
  /\ phase = "data" /\ pending = {}
  /\ last.path \in {"general", "permute"}
  /\ last.outExt # outData.Extent
  /\ self.IndexMatrix # NULL /\ interp # NULL

---------------------------------------------------------------------------
(* The modification time *)

\* the MTimes of the objects that the filter holds at present
HeldTimes ==
  {mtimes.Filter}
    \cup (IF self.ResliceTransform # NULL THEN {mtimes.ResliceTransform} ELSE {})
    \cup (IF self.ResliceTransform # NULL /\ self.ResliceTransform.homogeneous
          THEN {mtimes.Matrix} ELSE {})
    \cup (IF self.ResliceAxes # NULL THEN {mtimes.ResliceAxes} ELSE {})
    \cup (IF interp # NULL THEN {mtimes.Interpolator} ELSE {})
    \cup (IF self.InformationInput # NULL THEN {mtimes.InformationInput} ELSE {})

\* C12: GetMTime is the maximum of the filter's own MTime and the MTimes of the
\* reslice transform (and of its matrix when homogeneous), the reslice axes, the
\* interpolator and the information input, whichever of them are set; hence a
\* modification of any one of them raises GetMTime.
C12_MTimeIsMaximum ==
  \A time \in HeldTimes : GetMTime(self, interp, mtimes) >= time

---------------------------------------------------------------------------
(* The type dispatch *)

\* C13: when the scalar type is one the type dispatch has no function for, the
\* execution of a tile makes no call through a null pixel, conversion or
\* summation function: the miss is reported by a warning and every voxel of the
\* tile is filled with the background color.
C13_DispatchMiss ==
  (TileEntered /\ input.ScalarType \notin DispatchedTypes) =>
    /\ \A n \in 1..Len(last.writes) : last.writes[n].kind # "null"
    /\ \A v \in VoxelsOf(last.outExt) : PixelAt(v) = BackgroundPixel
    /\ warnings > 0

---------------------------------------------------------------------------
(* The update extent *)

\* RequestUpdateExtent has just run
ExtentRequested == phase = "extent"

\* RequestUpdateExtent has just analysed the corners: the reslice transform is
\* absent or homogeneous
CornersAnalysed ==
  /\ ExtentRequested
  /\ ~(self.ResliceTransform # NULL /\ ~self.ResliceTransform.homogeneous)

Wrapping == self.Wrap = 1 \/ self.Mirror = 1

NonEmptyInput == \A k \in 0..2 : input.WholeExtent[2 * k] <= input.WholeExtent[2 * k + 1]

\* the interval that the 8 mapped corners gave on axis k, before the clipping
Mapped(k) ==
  LET inExt == CornerExtent(self, interp, input, outInfo)
  IN [lo |-> inExt[2 * k], hi |-> inExt[2 * k + 1]]

\* the interval of axis k lies entirely below or entirely above the whole extent
Misses(k) ==
  \/ Mapped(k).hi < input.WholeExtent[2 * k]
  \/ Mapped(k).lo > input.WholeExtent[2 * k + 1]

\* the interval of axis k reaches beyond the whole extent on one side at least
Exceeds(k) ==
  \/ Mapped(k).lo < input.WholeExtent[2 * k]
  \/ Mapped(k).hi > input.WholeExtent[2 * k + 1]

\* HitInputExtent is 0 exactly when the corners were analysed without wrap or
\* mirror and the interval of one axis at least misses the whole extent
HitExactly ==
  (self.HitInputExtent = 0) <=>
    (CornersAnalysed /\ ~Wrapping /\ \E k \in 0..2 : Misses(k))

\* C14 as stated: after RequestUpdateExtent, HitInputExtent is 0 if and only if
\* the reslice transform is absent or homogeneous, neither Wrap nor Mirror is on
\* and the interval of one axis lies entirely below or entirely above the input
\* whole extent.
C14_HitAsStated == ExtentRequested => HitExactly

\* C14: the same, for a non-empty input whole extent.
C14_HitInputExtent == (ExtentRequested /\ NonEmptyInput) => HitExactly

\* C14 witness: the corners were analysed and one axis missed a non-empty input
C14_Witness ==
  /\ CornersAnalysed /\ NonEmptyInput /\ ~Wrapping
  /\ \E k \in 0..2 : Misses(k)
  /\ self.HitInputExtent = 0

\* the update extent lies in the whole extent on every axis, and is not inverted
WithinWhole ==
  \A k \in 0..2 :
    /\ input.WholeExtent[2 * k] <= inUpdateExt[2 * k]
    /\ inUpdateExt[2 * k] <= inUpdateExt[2 * k + 1]
    /\ inUpdateExt[2 * k + 1] <= input.WholeExtent[2 * k + 1]

\* on axis k the update extent is the single index of the whole extent nearest
\* to the mapped interval
DegenerateAtNearerBound(k) ==
  LET bound == IF Mapped(k).hi < input.WholeExtent[2 * k]
               THEN input.WholeExtent[2 * k] ELSE input.WholeExtent[2 * k + 1]
  IN inUpdateExt[2 * k] = bound /\ inUpdateExt[2 * k + 1] = bound

\* C15 as stated: for a non-empty input whole extent, the update extent lies in
\* the whole extent on every axis, and on an axis that the mapped interval
\* misses it is a degenerate interval at the nearer bound.
C15_ClipAsStated ==
  (ExtentRequested /\ NonEmptyInput) =>
    /\ WithinWhole
    /\ CornersAnalysed => \A k \in 0..2 : Misses(k) => DegenerateAtNearerBound(k)

\* C15: the same, the degenerate interval being required only when neither Wrap
\* nor Mirror is on.
C15_ClipInsideWhole ==
  (ExtentRequested /\ NonEmptyInput) =>
    /\ WithinWhole
    /\ (CornersAnalysed /\ ~Wrapping) =>
         \A k \in 0..2 : Misses(k) => DegenerateAtNearerBound(k)

\* C15 witness: an axis missed from above is clipped to the upper bound
C15_Witness ==
  /\ CornersAnalysed /\ NonEmptyInput /\ ~Wrapping
  /\ \E k \in 0..2 :
       /\ Mapped(k).lo > input.WholeExtent[2 * k + 1]
       /\ inUpdateExt[2 * k] = input.WholeExtent[2 * k + 1]
       /\ inUpdateExt[2 * k + 1] = input.WholeExtent[2 * k + 1]

\* C16: with Wrap or Mirror on, every axis whose mapped interval reaches beyond
\* the input whole extent on either side gets the full whole extent of the axis
\* as its update extent, and HitInputExtent stays 1.
C16_WrapWholeAxis ==
  (CornersAnalysed /\ Wrapping) =>
    /\ self.HitInputExtent = 1
    /\ \A k \in 0..2 :
         Exceeds(k) => /\ inUpdateExt[2 * k] = input.WholeExtent[2 * k]
                       /\ inUpdateExt[2 * k + 1] = input.WholeExtent[2 * k + 1]

\* C16 witness: under wrap, an interval that only reaches above the whole extent
C16_Witness ==
  /\ CornersAnalysed /\ Wrapping /\ NonEmptyInput
  /\ \E k \in 0..2 :
       /\ Mapped(k).lo > input.WholeExtent[2 * k]
       /\ Mapped(k).hi > input.WholeExtent[2 * k + 1]
       /\ inUpdateExt[2 * k] = input.WholeExtent[2 * k]

\* C17: with a reslice transform that is not homogeneous, RequestUpdateExtent
\* sets the update extent to the input whole extent and leaves HitInputExtent
\* at 1.
C17_NonLinearWholeExtent ==
  (ExtentRequested /\ self.ResliceTransform # NULL
   /\ ~self.ResliceTransform.homogeneous) =>
    /\ inUpdateExt = input.WholeExtent
    /\ self.HitInputExtent = 1

\* C17 witness: a non-homogeneous transform with an output so far away that the
\* analysis of the corners would miss the input
C17_Witness ==
  /\ ExtentRequested
  /\ self.ResliceTransform # NULL /\ ~self.ResliceTransform.homogeneous
  /\ NonEmptyInput
  /\ \E k \in 0..2 : Misses(k)
  /\ inUpdateExt = input.WholeExtent

\* the 8 corners of the extent that RequestUpdateExtent maps
MappedCorners ==
  {CornerPoint(self.IndexMatrix.Element, GrownExtent(self, outInfo), jj) : jj \in 0..7}

\* C18: for an odd kernel support size k on an axis, the interval before the
\* clipping is the union over the 8 mapped corners p of
\* [round(p) - (k-1)/2, round(p) + (k-1)/2], whatever the order of the corners.
C18_OddKernelUnion ==
  CornersAnalysed =>
    \A j \in 0..2 :
      LET k == ComputeSupportSize(interp)[j]
          extra == (k - 1) \div 2
      IN k % 2 = 1 =>
           /\ \A p \in MappedCorners : Mapped(j).lo <= Round(p[j]) - extra
           /\ \E p \in MappedCorners : Mapped(j).lo = Round(p[j]) - extra
           /\ \A p \in MappedCorners : Mapped(j).hi >= Round(p[j]) + extra
           /\ \E p \in MappedCorners : Mapped(j).hi = Round(p[j]) + extra

---------------------------------------------------------------------------
(* The output information *)

\* C19: for every axis k >= OutputDimensionality, the output whole extent that
\* RequestInformation publishes is [0,0] and the output origin is 0 on that
\* axis, also when the output extent or origin is fixed or auto-crop is on.
C19_CollapsedAxes ==
  (phase \in {"info", "extent"}) =>
    \A k \in 0..2 :
      k >= self.OutputDimensionality =>
        /\ outInfo.WholeExtent[2 * k] = 0
        /\ outInfo.WholeExtent[2 * k + 1] = 0
        /\ outInfo.Origin[k] = 0

\* C19 witness: a two-dimensional output with the extent fixed by the user, or
\* with auto-crop on
C19_Witness ==
  /\ phase = "info"
  /\ self.OutputDimensionality < 3
  /\ self.ComputeOutputExtent = 0 \/ self.AutoCropOutput = 1

---------------------------------------------------------------------------
(* The permutation test *)

\* the bottom row is (0,0,0,1) and the upper-left 3x3 has exactly one non-zero
\* element in every row and exactly one in every column
PermutationAsStated(matrix) ==
  /\ \A i \in 0..2 : matrix[3][i] = 0
  /\ matrix[3][3] = 4
  /\ \A i \in 0..2 : Cardinality({j \in 0..2 : matrix[i][j] # 0}) = 1
  /\ \A j \in 0..2 : Cardinality({i \in 0..2 : matrix[i][j] # 0}) = 1

\* C20: vtkIsPermutationMatrix returns 1 exactly when the bottom row of the
\* matrix is (0,0,0,1) and the upper-left 3x3 has exactly one non-zero element
\* in every row and exactly one in every column; it returns 0 for a matrix
\* whose three non-zero elements lie in the same row.  RequestInformationBase
\* applies it to the index matrix and, everything else allowing the permute
\* executor, keeps the answer in UsePermuteExecute.
C20_PermutationExact ==
  (phase = "info" /\ self.ResliceAxes # NULL /\ self.ResliceTransform = NULL
   /\ self.Optimization = 1 /\ self.SlabSliceSpacingFraction = 4) =>
    /\ vtkIsPermutationMatrix(self.IndexMatrix.Element)
         <=> PermutationAsStated(self.IndexMatrix.Element)
    /\ self.UsePermuteExecute = 1 <=> PermutationAsStated(self.IndexMatrix.Element)

---------------------------------------------------------------------------
(* The choice of the permute executor *)

\* C21: after RequestInformationBase, UsePermuteExecute is 1 if and only if
\* Optimization is on, OptimizedTransform is null, SlabSliceSpacingFraction is
\* 1, the interpolator is separable and the index matrix is
\* permutation+scale+translation (exactly one non-zero element in every row
\* and every column of the upper-left 3x3, bottom row (0,0,0,1)); a tile takes
\* the permute path only then.
C21_PermuteEligibility ==
  (phase # "idle") =>
    LET eligible == /\ self.Optimization = 1
                    /\ self.OptimizedTransform = NULL
                    /\ self.SlabSliceSpacingFraction = 4
                    /\ IsSeparable
                    /\ PermutationAsStated(self.IndexMatrix.Element)
    IN /\ self.UsePermuteExecute = 1 <=> eligible
       /\ (TileEntered /\ last.path = "permute") => eligible

---------------------------------------------------------------------------
(* The setters of the output geometry *)

\* the pairs (stored value, compute or pass flag)
SpacingPair == <<self.OutputSpacing, self.ComputeOutputSpacing>>
DirectionPair == <<self.OutputDirection, self.PassDirectionToOutput>>
OriginPair == <<self.OutputOrigin, self.ComputeOutputOrigin>>
ExtentPair == <<self.OutputExtent, self.ComputeOutputExtent>>

\* the step invokes Modified() on the filter
InvokesModified == mtimes'.Filter # mtimes.Filter

\* what each setter does in a step, as stated
SettersAsStated ==
  /\ \A v \in SpacingChoices :
      SetOutputSpacingTo(v) =>
        /\ SpacingPair' = <<v, 0>>
        /\ InvokesModified <=> SpacingPair' # SpacingPair
  /\ SetOutputSpacingToDefault =>
        /\ SpacingPair' = <<Constructor.OutputSpacing, 1>>
        /\ InvokesModified <=> SpacingPair' # SpacingPair
  /\ \A v \in DirectionChoices :
      SetOutputDirectionTo(v) =>
        /\ DirectionPair' = <<v, 0>>
        /\ InvokesModified <=> DirectionPair' # DirectionPair
  /\ SetOutputDirectionToDefault =>
        /\ DirectionPair' = <<Constructor.OutputDirection, 1>>
        /\ InvokesModified <=> DirectionPair' # DirectionPair
  /\ \A v \in OriginChoices \cup {Constructor.OutputOrigin} :
      SetOutputOriginTo(v) =>
        /\ OriginPair' = <<v, 0>>
        /\ InvokesModified <=> OriginPair' # OriginPair
  /\ SetOutputOriginToDefault =>
        /\ OriginPair' = <<Constructor.OutputOrigin, 1>>
        /\ InvokesModified <=> OriginPair' # OriginPair
  /\ \A v \in ExtentChoices \cup {Constructor.OutputExtent} :
      SetOutputExtentTo(v) =>
        /\ ExtentPair' = <<v, 0>>
        /\ InvokesModified <=> ExtentPair' # ExtentPair
  /\ SetOutputExtentToDefault =>
        /\ ExtentPair' = <<Constructor.OutputExtent, 1>>
        /\ InvokesModified <=> ExtentPair' # ExtentPair

\* C28: for each of output spacing, direction, origin and extent, Set(v) leaves
\* the pair (stored value, flag) at (v, off), SetToDefault leaves it at
\* (constructor value, on), and the call invokes Modified() if and only if it
\* changes the pair; so the same call repeated never invokes Modified().
C28_ModifiedIffChanged == [][SettersAsStated]_vars

\* C28 witness: three calls of which only the first two invoked Modified(): the
\* spacing fixed at the value of the constructor, set to default again, and a
\* call that changed nothing
C28_Witness ==
  /\ calls = MaxSetterCalls - 3
  /\ mtimes.Filter = 3
  /\ SpacingPair = <<Constructor.OutputSpacing, 1>>
  /\ DirectionPair = <<Constructor.OutputDirection, 1>>
  /\ OriginPair = <<Constructor.OutputOrigin, 1>>
  /\ ExtentPair = <<Constructor.OutputExtent, 1>>

---------------------------------------------------------------------------
(* The downgrade to nearest neighbour *)

\* RequestInformationBase has given a mode to a vtkImageInterpolator
ModeGiven == phase # "idle" /\ interp.Class = "vtkImageInterpolator"

\* every scale and translation of the index matrix is an integer
IntegerMatrix ==
  \A i \in 0..2 : \A j \in 0..3 : FloorFrac(self.IndexMatrix.Element[i][j]) = 0

\* the output whole extent is a single index along axis j
SingleIndex(j) == outInfo.WholeExtent[2 * j] = outInfo.WholeExtent[2 * j + 1]

\* the mode is nearest when the permute path is eligible and the index matrix is
\* integer, the mode of the filter otherwise
ModeAsStated ==
  interp.InterpolationMode =
    IF self.UsePermuteExecute = 1 /\ IntegerMatrix THEN VTK_NEAREST_INTERPOLATION
    ELSE self.InterpolationMode

\* C22 as stated: in every pass, the interpolation mode given to a
\* vtkImageInterpolator is nearest when the permute path is eligible and every
\* scale and translation of the index matrix is an integer, and the filter's
\* InterpolationMode in every other case.
C22_ModeAsStated == ModeGiven => ModeAsStated

\* C22: the same, in every pass whose output whole extent is a single index on
\* no axis; the mode is computed anew on each pass.
C22_NearestDowngrade ==
  (ModeGiven /\ \A j \in 0..2 : ~SingleIndex(j)) => ModeAsStated

\* C22 witness: the second pass, in which RequestInformation has just changed the
\* interpolator back to the linear mode of the filter, the matrix being no
\* longer integer
C22_Witness ==
  /\ phase = "info" /\ passesLeft = MaxPasses - 2
  /\ interp.Class = "vtkImageInterpolator"
  /\ \A j \in 0..2 : ~SingleIndex(j)
  /\ self.UsePermuteExecute = 1 /\ ~IntegerMatrix
  /\ self.InterpolationMode = VTK_RESLICE_LINEAR
  /\ interp.InterpolationMode = VTK_RESLICE_LINEAR
  /\ mtimes.Interpolator = mtimes.clock

\* the column of the only non-zero element of row i of a permutation matrix
FedBy(i) == CHOOSE j \in 0..2 : self.IndexMatrix.Element[i][j] # 0

\* row i of the index matrix samples integer coordinates only: the one
\* coordinate sampled when the output is a single index e along the axis that
\* feeds it, its scale and its translation otherwise
RowIsInteger(i) ==
  LET M == self.IndexMatrix.Element
      j == FedBy(i)
  IN IF SingleIndex(j)
     THEN FloorFrac(M[i][3] + M[i][j] * outInfo.WholeExtent[2 * j]) = 0
     ELSE FloorFrac(M[i][j]) = 0 /\ FloorFrac(M[i][3]) = 0

\* C29: for a permutation+scale+translation index matrix in which input axis i
\* is fed by output axis j, when the output whole extent along axis j is a
\* single index e, vtkCanUseNearestNeighbor accepts row i exactly when the one
\* coordinate sampled, M[i][3] + M[i][j] * e, is an integer, also when i
\* differs from j.
C29_SingleIndexRow ==
  (phase # "idle" /\ PermutationAsStated(self.IndexMatrix.Element)) =>
    (vtkCanUseNearestNeighbor(self.IndexMatrix.Element, outInfo.WholeExtent)
       <=> \A i \in 0..2 : RowIsInteger(i))

---------------------------------------------------------------------------
(* Slab mean and slab sum *)

\* the latest tile executed again by the same executor in slab mode sum
BySlabSum ==
  Execute(last.path, [self EXCEPT !.SlabMode = VTK_IMAGE_SLAB_SUM], interp, input,
          outData.Extent, last.outExt)

\* a tile has been executed in slab mode mean with more than one slice, without
\* trapezoid integration and without an input stencil
SlabMeanTile ==
  /\ phase = "data" /\ last.path \in {"general", "permute"}
  /\ self.SlabMode = VTK_IMAGE_SLAB_MEAN /\ self.SlabNumberOfSlices > 1
  /\ self.SlabTrapezoidIntegration = 0 /\ self.Stencil = NULL

\* the slab samples of voxel v that are in bounds
SamplesInBounds(v) == {p \in SlabPoints(v) : SampleInBounds(p)}

\* the quotient s / n rounded as the conversion rounds: half up
RoundedQuotient(s, n) == (2 * s + n) \div (2 * n)

\* on the voxels of the set, the pixel of the tile is the pixel of slab mode sum
\* divided by the slab count
MeanIsSumOverCount(voxels) ==
  \E garbage \in GarbageChoices :
    \A v \in voxels :
      PixelAt(v) = RoundedQuotient(ImageOf(BySlabSum, garbage)[IdOf(outData.Extent, v[1], v[2], v[3])],
                                   self.SlabNumberOfSlices)

ClampingForced ==
  ~(last.interpolationMode <= VTK_RESLICE_LINEAR
    /\ ~(last.nsamples > 1 /\ last.slabMode = VTK_IMAGE_SLAB_SUM))

RangeFits ==
  \A v \in {GetDataTypeMin(last.inputType), GetDataTypeMax(last.inputType)} :
    /\ (4 * v + last.scalarShift) * last.scalarScale >= 16 * GetDataTypeMin(last.dataType)
    /\ (4 * v + last.scalarShift) * last.scalarScale <= 16 * GetDataTypeMax(last.dataType)

C24_ConversionSelection ==
  (last.path = "conversion" /\ last.selected /\ last.dataType \in IntegerTypes) =>
    /\ last.conversion \in {[name |-> "Convert"], [name |-> "Clamp"]}
    /\ (last.conversion = [name |-> "Convert"]) <=> (~ClampingForced /\ RangeFits)

C24_Witness ==
  /\ last.path = "conversion" /\ last.selected /\ last.dataType \in IntegerTypes
  /\ last.scalarScale < 0 /\ last.inputType # last.dataType
  /\ last.conversion = [name |-> "Convert"]

\* C25: on the permute path with more than one slab sample, every output Z row
\* that is iterated for interpolation (a row of iterExt) has at least one of its
\* slab rows inside clipExt, that is nsamples1 >= 1, so that no iterated row is
\* converted from floats that no interpolation wrote
LastPermute == PermuteSetup(self, interp, input, outData.Extent, last.outExt)

SlabPermuteTile ==
  /\ phase = "data" /\ last.path = "permute"
  /\ LastPermute.nsamples > 1 /\ LastPermute.doConversion

C25_SlabRowInClip ==
  SlabPermuteTile =>
    \A idZ \in LastPermute.iterExt[4]..LastPermute.iterExt[5] :
      PermuteRows(LastPermute, idZ).nsamples1 >= 1

\* C26: whenever a stencil input is connected, every call of RequestUpdateExtent
\* sets the update extent of the stencil input to the output update extent that
\* was requested, for every kind of reslice transform and every slab count
ExtentPassDone == phase = "extent"

C26_StencilUpdateExtent ==
  (ExtentPassDone /\ self.Stencil # NULL) => stencilUpdateExt = Array6(outInfo.WholeExtent)

\* C27: RequestData never increases SplitPathLength: once a pass has run with
\* GenerateStencilOutput on and SplitPathLength 3, SplitPathLength is 2 in that
\* pass and stays 2 in every later pass, also after GenerateStencilOutput has
\* been turned off
RequestDataStep == phase = "extent" /\ phase' = "data"

SplitPathLengthKept ==
  /\ self'.SplitPathLength <= self.SplitPathLength
  /\ (RequestDataStep /\ self.GenerateStencilOutput = 1 /\ self.SplitPathLength = 3)
       => self'.SplitPathLength = 2
  /\ self.SplitPathLength = 2 => self'.SplitPathLength = 2

C27_SplitPathLengthKept == [][SplitPathLengthKept]_vars

C27_Witness ==
  /\ phase = "data" /\ passesLeft < MaxPasses - 1
  /\ self.GenerateStencilOutput = 0 /\ self.SplitPathLength = 2

\* C30: on the general path, every store of the interpolator and of the
\* compositor into the float row of a tile, and every slot that the rescaling
\* and the conversion read or write, lies within the
\* inComponents * (outExt[1] - outExt[0] + ns) floats that were allocated
LastGeneral == GeneralSetup(self, interp, input, outData.Extent, last.outExt)

GeneralTile == phase = "data" /\ last.path = "general"

C30_FloatRowInBounds ==
  GeneralTile => \A slot \in last.floats : 0 <= slot /\ slot < LastGeneral.floatSize

C30_Witness ==
  /\ GeneralTile /\ LastGeneral.nsamples > 1 /\ LastGeneral.rescaleScalars
  /\ LastGeneral.floatSize - 1 \in last.floats

====
